---------------------------- MODULE Spec2Model ----------------------------
(***************************************************************************)
(* Model of the retrieval core of Context-AI: the chunker and document     *)
(* processing of RAGService, the EmbeddingService (both the Cohere         *)
(* implementation of backend/src/services/embeddingService.js and the      *)
(* Gemini implementation found in src/unnamed/part_002), the similarity    *)
(* search of VectorService, the reranker of LLMService and the retrieval   *)
(* methods of RAGService built on them.                                    *)
(*                                                                         *)
(* Strings are sequences of one-character strings.  Indices follow the     *)
(* source (0-based, half-open ranges) and are shifted by one only where a  *)
(* TLA+ sequence is accessed.                                              *)
(***************************************************************************)
EXTENDS Integers, Sequences, FiniteSets, TLC

(***************************************************************************)
(* Bounds of the model.                                                    *)
(***************************************************************************)
\* number of (word, separator) segments a document is built from
MaxSegs == 2
\* number of iterations of the splitIntoChunks loop that are explored
MaxIter == 7
\* number of texts in one generateBatchEmbeddings call
MaxBatch == 2

(***************************************************************************)
(* Program constants.                                                      *)
(***************************************************************************)
\* ragService.js:239  if (chunk.length > 20)
MinChunkLen == 20
\* embeddingService.js:18  text.length > 2048 ? text.substring(0, 2048) : text
MaxEmbedChars == 2048
\* part_002:94  const dimensions = 1536 (fallback vector of the Gemini implementation)
GeminiFallbackDimensions == 1536
\* part_004:28  parseInt(process.env.EMBEDDING_DIMENSION) || 1536
DefaultIndexDimension == 1536
\* part_005:123  return model?.dimensions || 1024
DefaultEmbedDimensions == 1024

VARIABLES
    \* ---- RAGService.splitIntoChunks / processDocument ----
    text,       \* documentText
    chunkSize,  \* chunkSize argument
    overlap,    \* overlap argument
    start,      \* let start
    chunks,     \* const chunks = []
    spans,      \* position <<lo, hi>> (0-based, half-open) in text of every pushed chunk
    iter,       \* number of loop iterations executed so far
    pc,         \* position in processDocument
    embedded,   \* the texts handed to embeddingService.generateBatchEmbeddings
    stored,     \* the vectorService.storeEmbedding calls made: [content, chunkIndex, totalChunks]
    results,    \* const results = [] of processDocument
    \* ---- EmbeddingService and the vectors it hands on ----
    impl,       \* which EmbeddingService: "cohere" (embeddingService.js) or "gemini" (part_002)
    embedModel, \* aiConfig.models.embed (process.env.COHERE_EMBED_MODEL)
    envDim,     \* process.env.EMBEDDING_DIMENSION, 0 when unset
    call,       \* the generateBatchEmbeddings call in progress, or the idle record
    ret,        \* what the last finished call returned or raised
    storeOps,   \* the vectors the last call handed to the Pinecone index: [op, dim]
    \* ---- record of the generateFallbackEmbedding calls ----
    fbLog,      \* text -> [inst, vec]: the first fallback vector returned for the text
    fbInst,     \* the EmbeddingService instance that served the last fallback call
    \* ---- VectorService / LLMService / RAGService retrieval ----
    processEnv,     \* process.env read by the constructors; 0 stands for an unset variable
    llm,            \* which LLMService: "cohere" (part_003) or "gemini" (llmService.js)
    store,          \* the Pinecone namespace as a query sees it: query -> ranked matches
    rcall,          \* the last retrieval call: its name, arguments and what its providers did
    rret,           \* what that call returned or raised
    matches,        \* searchResponse.matches of the searches the call made, in order
    searchResults,  \* const searchResults of the RAGService methods
    updated,        \* the ids whose access counter the call incremented
    searchQueries,  \* const searchQueries of hybridSearch
    uniqueResults,  \* const uniqueResults of hybridSearch
    context,        \* the context the call built (before any truncation)
    \* ---- concurrent requests and the lazily initialized index handle ----
    rpc,            \* request -> the await it is suspended at, or idle / done / failed
    rkind,          \* request -> "searchSimilar" or "generateAnswer" ("none" before it starts)
    vsIndex,        \* VectorService.index is set
    initialized,    \* PineconeClient.initialized
    indexExists,    \* the Pinecone project holds the index
    initRuns,       \* number of PineconeClient.initialize runs started
    createCalls,    \* number of client.createIndex calls issued
    silent,         \* the external service that never answers, or "none"
    faulted,        \* request -> a provider answered it with an error
    \* ---- the provider calls of one generateBatchEmbeddings run ----
    nTexts,         \* texts.length
    batchPhase,     \* where the run stands: the await it is suspended at, idle or done
    batchStart,     \* the loop variable: i of the sub-batch loop, position of the item loop
    batchPromises,  \* the provider calls in flight, each the set of text positions it carries
    allEmbeddings,  \* text position -> "provider" or "fallback", for the texts that have a vector
    \* ---- one chat session, its messages and the controller runs on it ----
    messageCount,   \* ChatSession.messageCount in the database
    messages,       \* number of user and assistant ChatHistory documents of the session
    chat,           \* controller run -> its operation, position, loaded session and references
    operations      \* number of controller runs started

chunkVars == <<text, chunkSize, overlap, start, chunks, spans, iter, pc,
               embedded, stored, results>>

embedVars == <<impl, embedModel, envDim, call, ret, storeOps>>

logVars == <<fbLog, fbInst>>

ragVars == <<processEnv, llm, store, rcall, rret, matches, searchResults, updated,
             searchQueries, uniqueResults, context>>

reqVars == <<rpc, rkind, vsIndex, initialized, indexExists, initRuns, createCalls,
             silent, faulted>>

batchVars == <<nTexts, batchPhase, batchStart, batchPromises, allEmbeddings>>

chatVars == <<messageCount, messages, chat, operations>>

extVars == <<reqVars, batchVars, chatVars>>

vars == <<chunkVars, embedVars, logVars, ragVars, extVars>>

\* the number of concurrent requests followed
MaxRequests == 2

Procs == 1..MaxRequests

\* no request was made and the index handle is not initialized
ReqIdle ==
    /\ rpc = [p \in Procs |-> "idle"]
    /\ rkind = [p \in Procs |-> "none"]
    /\ vsIndex = FALSE
    /\ initialized = FALSE
    /\ indexExists = TRUE
    /\ initRuns = 0
    /\ createCalls = 0
    /\ silent = "none"
    /\ faulted = [p \in Procs |-> FALSE]

\* no batch run was made
BatchIdle ==
    /\ nTexts = 0
    /\ batchPhase = "idle"
    /\ batchStart = 0
    /\ batchPromises = {}
    /\ allEmbeddings = <<>>

\* the number of concurrent controller runs followed
MaxRuns == 2

ChatRuns == 1..MaxRuns

NoRun == [op |-> "none", pc |-> "idle", session |-> 0, contextReferences |-> <<>>,
          invalid |-> FALSE]

\* an empty session and no controller run
ChatIdle ==
    /\ messageCount = 0
    /\ messages = 0
    /\ chat = [p \in ChatRuns |-> NoRun]
    /\ operations = 0

ExtIdle == ReqIdle /\ BatchIdle /\ ChatIdle

\* no retrieval call has been made
RagIdle ==
    /\ processEnv = [SIMILARITY_THRESHOLD |-> 0, MAX_CONTEXT_CHUNKS |-> 0, USE_RERANKING |-> FALSE]
    /\ llm = "cohere"
    /\ store = <<>>
    /\ rcall = [op |-> "none"]
    /\ rret = [kind |-> "none", val |-> <<>>]
    /\ matches = <<>>
    /\ searchResults = <<>>
    /\ updated = <<>>
    /\ searchQueries = <<>>
    /\ uniqueResults = <<>>
    /\ context = <<>>

(***************************************************************************)
(* Generic helpers.                                                        *)
(***************************************************************************)
Min(a, b) == IF a < b THEN a ELSE b

SetMax(S) == CHOOSE x \in S : \A y \in S : y <= x

SetMin(S) == CHOOSE x \in S : \A y \in S : x <= y

RECURSIVE Repeat(_, _)
Repeat(ch, n) == IF n = 0 THEN <<>> ELSE <<ch>> \o Repeat(ch, n - 1)

\* String.prototype.trim removes these characters at both ends
IsWs(ch) == ch \in {" ", "\n"}

\* String.prototype.substring(a, b) for 0 <= a <= b: characters a .. b-1
Substring(t, a, b) == SubSeq(t, a + 1, Min(b, Len(t)))

\* String.prototype.lastIndexOf(s, from): the largest index i <= from at which
\* s occurs in t, -1 when there is none
LastIndexOf(t, s, from) ==
    LET top  == Min(from, Len(t) - Len(s))
        hits == {i \in 0..top : SubSeq(t, i + 1, i + Len(s)) = s}
    IN  IF hits = {} THEN -1 ELSE SetMax(hits)

\* the span <<lo, hi>> that text.substring(a, b).trim() occupies in t
TrimSpan(t, a, b) ==
    LET keep == {i \in a..(Min(b, Len(t)) - 1) : ~IsWs(t[i + 1])}
    IN  IF keep = {} THEN <<a, a>> ELSE <<SetMin(keep), SetMax(keep) + 1>>

\* String.prototype.trim
Trim(s) == LET sp == TrimSpan(s, 0, Len(s)) IN Substring(s, sp[1], sp[2])

(***************************************************************************)
(* RAGService.splitIntoChunks, one loop iteration at a time.               *)
(***************************************************************************)
\* const sentenceBreaks = ['. ', '! ', '? ', '\n\n', '\n', ' ']
sentenceBreaks ==
    << <<".", " ">>, <<"!", " ">>, <<"?", " ">>, <<"\n", "\n">>, <<"\n">>, <<" ">> >>

\* breakIndex > start + chunkSize * 0.7, in tenths
ReasonableBreak(breakIndex, st, c) == 10 * breakIndex > 10 * st + 7 * c

\* the value of `end` when the chunk is cut, lines 213-236
WindowEnd(t, st, c) ==
    LET end0 == st + c
    IN  IF end0 < Len(t)
        THEN LET good == {k \in 1..Len(sentenceBreaks) :
                            ReasonableBreak(LastIndexOf(t, sentenceBreaks[k], end0), st, c)}
             IN  IF good # {}
                 THEN LET k == SetMin(good)
                      IN  LastIndexOf(t, sentenceBreaks[k], end0) + Len(sentenceBreaks[k])
                 ELSE LET lastSpace == LastIndexOf(t, <<" ">>, end0)
                      IN  IF lastSpace > st THEN lastSpace + 1 ELSE end0
        ELSE end0

\* mutation of KeepChunk: the comparison admits a chunk of exactly 20 characters
KeepChunkInclusive(chunk) == Len(chunk) >= MinChunkLen

\* if (chunk.length > 20), on the trimmed chunk
KeepChunk(chunk) == Len(chunk) > MinChunkLen

\* start = end - overlap; if (start < 0) start = 0
NextStart(end, o) == IF end - o < 0 THEN 0 ELSE end - o

\* one iteration of while (start < text.length)
SplitStep ==
    /\ pc = "split"
    /\ start < Len(text)
    /\ iter < MaxIter
    /\ LET end   == WindowEnd(text, start, chunkSize)
           sp    == TrimSpan(text, start, Min(end, Len(text)))
           chunk == Substring(text, sp[1], sp[2])
       IN  /\ chunks' = IF KeepChunk(chunk) THEN Append(chunks, chunk) ELSE chunks
           /\ spans'  = IF KeepChunk(chunk) THEN Append(spans, sp) ELSE spans
           /\ start'  = NextStart(end, overlap)
    /\ iter' = iter + 1
    /\ UNCHANGED <<text, chunkSize, overlap, pc, embedded, stored, results>>
    /\ UNCHANGED <<embedVars, logVars, ragVars, extVars>>

\* the loop condition fails: return chunks
SplitReturn ==
    /\ pc = "split"
    /\ start >= Len(text)
    /\ pc' = "embed"
    /\ UNCHANGED <<text, chunkSize, overlap, start, chunks, spans, iter,
                   embedded, stored, results>>
    /\ UNCHANGED <<embedVars, logVars, ragVars, extVars>>

(***************************************************************************)
(* RAGService.processDocument after the split.                             *)
(***************************************************************************)
\* embeddingService.generateBatchEmbeddings(chunks, ...): it returns one
\* vector per chunk and raises nothing (its catch falls back)
ProcessEmbed ==
    /\ pc = "embed"
    /\ embedded' = chunks
    /\ pc' = "store"
    /\ UNCHANGED <<text, chunkSize, overlap, start, chunks, spans, iter,
                   stored, results>>
    /\ UNCHANGED <<embedVars, logVars, ragVars, extVars>>

\* a loop that numbers the chunks from 1
StoredChunkOneBased(chunk, i, total) ==
    [content |-> chunk, chunkIndex |-> i + 1, totalChunks |-> total]

\* vectorService.storeEmbedding(chunk, {...metadata, chunkIndex: i,
\*                                      totalChunks: chunks.length, ...})
StoredChunk(chunk, i, total) ==
    [content |-> chunk, chunkIndex |-> i, totalChunks |-> total]

\* one iteration of for (let i = 0; i < chunks.length; i++) whose
\* vectorService.storeEmbedding call succeeds
ProcessStore ==
    /\ pc = "store"
    /\ Len(stored) < Len(chunks)
    /\ LET i == Len(stored)
       IN  /\ stored' = Append(stored, StoredChunk(chunks[i + 1], i, Len(chunks)))
           /\ results' = Append(results, [chunkIndex |-> i])
    /\ UNCHANGED <<text, chunkSize, overlap, start, chunks, spans, iter, pc, embedded>>
    /\ UNCHANGED <<embedVars, logVars, ragVars, extVars>>

\* vectorService.storeEmbedding throws (embedding or store failure):
\* processDocument logs and rethrows
ProcessStoreFails ==
    /\ pc = "store"
    /\ Len(stored) < Len(chunks)
    /\ pc' = "failed"
    /\ UNCHANGED <<text, chunkSize, overlap, start, chunks, spans, iter,
                   embedded, stored, results>>
    /\ UNCHANGED <<embedVars, logVars, ragVars, extVars>>

\* return { success: true, totalChunks: chunks.length, ..., results }
ProcessReturn ==
    /\ pc = "store"
    /\ Len(stored) = Len(chunks)
    /\ pc' = "done"
    /\ UNCHANGED <<text, chunkSize, overlap, start, chunks, spans, iter,
                   embedded, stored, results>>
    /\ UNCHANGED <<embedVars, logVars, ragVars, extVars>>

(***************************************************************************)
(* Documents and parameters explored.                                      *)
(***************************************************************************)
WordLens == {1, 8, 19, 30}

Separators == {<<>>, <<" ">>, <<".", " ">>, <<"\n">>}

Segments == [w : WordLens, sep : Separators]

RECURSIVE Concat(_)
Concat(segs) ==
    IF segs = <<>> THEN <<>>
    ELSE Repeat("a", Head(segs).w) \o Head(segs).sep \o Concat(Tail(segs))

Documents == {Concat(segs) : segs \in UNION {[1..n -> Segments] : n \in 0..MaxSegs}}

\* (chunkSize, overlap) pairs with 0 <= overlap < chunkSize
Windows == {<<30, 0>>, <<30, 5>>, <<30, 25>>}

InitChunk ==
    /\ text \in Documents
    /\ \E w \in Windows : chunkSize = w[1] /\ overlap = w[2]
    /\ start = 0
    /\ chunks = <<>>
    /\ spans = <<>>
    /\ iter = 0
    /\ pc = "split"
    /\ embedded = <<>>
    /\ stored = <<>>
    /\ results = <<>>
    \* the embedding service is idle
    /\ impl = "cohere" /\ embedModel = "embed-english-v3.0" /\ envDim = 0
    /\ call = [phase |-> "idle", texts |-> <<>>, i |-> 0, acc |-> <<>>]
    /\ ret = [op |-> "none", input |-> <<>>,
              out |-> [kind |-> "ok", status |-> 0, msg |-> {}],
              res |-> [kind |-> "none", val |-> <<>>]]
    /\ storeOps = {}
    /\ fbLog = <<>> /\ fbInst = 0
    /\ RagIdle
    /\ ExtIdle

NextChunk ==
    \/ SplitStep
    \/ SplitReturn
    \/ ProcessEmbed
    \/ ProcessStore
    \/ ProcessStoreFails
    \/ ProcessReturn

SpecChunk == InitChunk /\ [][NextChunk]_vars

(***************************************************************************)
(* Properties of the chunker and of document processing.                   *)
(***************************************************************************)
Range(s) == {s[i] : i \in 1..Len(s)}

\* C1: with 0 <= overlap < chunkSize the window start strictly increases at
\* every iteration of the splitIntoChunks loop (so the loop terminates).
C1_StartStrictlyIncreases == [][iter' > iter => start' > start]_vars

\* C2: every chunk returned by splitIntoChunks(text, c, o) has at most c
\* characters.
C2_ChunkAtMostChunkSize == \A i \in 1..Len(chunks) : Len(chunks[i]) <= chunkSize

\* C3: every chunk splitIntoChunks collects has trimmed length > 20, and
\* processDocument hands the embedder and the store exactly such chunks:
\* nothing of trimmed length 20 or less is embedded or stored.
C3_OnlyLongChunksProcessed ==
    /\ \A c \in Range(chunks) : Len(Trim(c)) > MinChunkLen
    /\ \A c \in Range(embedded) : c \in Range(chunks) /\ Len(Trim(c)) > MinChunkLen
    /\ \A r \in Range(stored) :
           r.content \in Range(chunks) /\ Len(Trim(r.content)) > MinChunkLen

\* a document was processed to the end, a chunk was stored and a short
\* fragment was discarded on the way
C3_Witness ==
    /\ pc = "done"
    /\ Len(stored) >= 1
    /\ iter > Len(chunks)

C4_ShortTextOneOrZero ==
    (pc # "split" /\ Len(text) < chunkSize) =>
        Len(chunks) = IF Len(Trim(text)) > MinChunkLen THEN 1 ELSE 0

\* C5: the returned chunks cover the document: every non-whitespace position
\* lies in the span of a chunk, consecutive chunks are contiguous or
\* overlapping (only whitespace may lie between them) and the last chunk
\* reaches the end of the document (up to trailing whitespace).
OnlyWsBetween(lo, hi) == \A p \in lo..(hi - 1) : IsWs(text[p + 1])

C5_ChunksCoverDocument ==
    pc # "split" =>
        /\ \A p \in 0..(Len(text) - 1) :
               ~IsWs(text[p + 1]) =>
                   \E i \in 1..Len(spans) : spans[i][1] <= p /\ p < spans[i][2]
        /\ \A i \in 1..(Len(spans) - 1) : OnlyWsBetween(spans[i][2], spans[i + 1][1])
        /\ Len(spans) > 0 => OnlyWsBetween(spans[Len(spans)][2], Len(text))

(***************************************************************************)
(* EmbeddingService.generateFallbackEmbedding.                             *)
(*                                                                         *)
(* A vector is a record [dim, src, ...]: a provider vector is opaque,      *)
(* [dim, src |-> "provider", of |-> the text sent]; a fallback vector is   *)
(* [dim, src |-> "fallback", raw, mag2], standing for the array of length  *)
(* dim whose entry i is raw[i] / sqrt(mag2) (0 outside DOMAIN raw, and raw *)
(* itself when mag2 = 0).  raw is counted in the unit of the               *)
(* implementation (1/20 for Cohere, 1/12 for Gemini), so the weights are   *)
(* exact; the rounding of the floating-point additions is not modelled.    *)
(***************************************************************************)
\* a value that is not a string (undefined, null, a number)
NotAString == <<"<undefined>">>

IsString(t) == t # NotAString

\* String.prototype.charCodeAt
CharCode(ch) ==
    CASE ch = "a"  -> 97
      [] ch = "b"  -> 98
      [] ch = "B"  -> 66
      [] ch = "."  -> 46
      [] ch = " "  -> 32
      [] ch = "\n" -> 10

\* String.prototype.toLowerCase
ToLowerCase(t) == [i \in 1..Len(t) |-> IF t[i] = "B" THEN "b" ELSE t[i]]

\* String.prototype.split(/\s+/): the pieces between maximal whitespace runs
\* (a leading or trailing run gives an empty piece)
RECURSIVE SplitFrom(_, _, _, _)
SplitFrom(t, i, cur, acc) ==
    IF i > Len(t) THEN Append(acc, cur)
    ELSE IF IsWs(t[i])
         THEN IF i > 1 /\ IsWs(t[i - 1])
              THEN SplitFrom(t, i + 1, cur, acc)
              ELSE SplitFrom(t, i + 1, <<>>, Append(acc, cur))
         ELSE SplitFrom(t, i + 1, Append(cur, t[i]), acc)

SplitWhitespace(t) == SplitFrom(t, 1, <<>>, <<>>)

\* hash = ((hash << 5) - hash) + word.charCodeAt(i); hash = hash & hash
\* a 32-bit two's complement value is kept as <<high 16 bits, low 16 bits>>
HashStep(h, code) ==
    LET lo == 31 * h[2] + code
        hi == 31 * h[1] + (lo \div 65536)
    IN  <<hi % 65536, lo % 65536>>

RECURSIVE HashFrom(_, _, _)
HashFrom(word, i, h) ==
    IF i > Len(word) THEN h ELSE HashFrom(word, i + 1, HashStep(h, CharCode(word[i])))

WordHash(word) == HashFrom(word, 1, <<0, 0>>)

\* Math.abs(hash) % dimensions
BaseIndex(h, d) ==
    IF h[1] < 32768
    THEN (h[1] * 65536 + h[2]) % d
    ELSE ((((65535 - h[1]) * 65536) % d) + (65536 - h[2])) % d

\* the weight added at the base index and at neighbour j, and the modulus,
\* in the implementation's unit:
\*   Cohere  (e + 0.1) % 1.0  and  (e + 0.05) % 0.5       unit 1/20
\*   Gemini  (e + 1) % 1.0    and  (e + 1/(j+1)) % 1.0    unit 1/12
BaseWeight(im) == IF im = "cohere" THEN 2 ELSE 12

BaseModulus(im) == IF im = "cohere" THEN 20 ELSE 12

NeighbourWeight(im, j) == IF im = "cohere" THEN 1 ELSE 12 \div (j + 1)

NeighbourModulus(im) == IF im = "cohere" THEN 10 ELSE 12

At(e, i) == IF i \in DOMAIN e THEN e[i] ELSE 0

Put(e, i, v) == [k \in (DOMAIN e) \cup {i} |-> IF k = i THEN v ELSE e[k]]

\* the body of words.forEach for one word
AddWord(im, d, e, word) ==
    LET base == BaseIndex(WordHash(word), d)
        e0 == Put(e, base, (At(e, base) + BaseWeight(im)) % BaseModulus(im))
        n1 == (base + 1) % d
        e1 == Put(e0, n1, (At(e0, n1) + NeighbourWeight(im, 1)) % NeighbourModulus(im))
        n2 == (base + 2) % d
        e2 == Put(e1, n2, (At(e1, n2) + NeighbourWeight(im, 2)) % NeighbourModulus(im))
        n3 == (base + 3) % d
    IN  Put(e2, n3, (At(e2, n3) + NeighbourWeight(im, 3)) % NeighbourModulus(im))

RECURSIVE AddWords(_, _, _, _, _)
AddWords(im, d, e, words, i) ==
    IF i > Len(words) THEN e ELSE AddWords(im, d, AddWord(im, d, e, words[i]), words, i + 1)

RECURSIVE SumSquares(_)
SumSquares(e) ==
    IF DOMAIN e = {} THEN 0
    ELSE LET i == CHOOSE k \in DOMAIN e : TRUE
         IN  e[i] * e[i] + SumSquares([k \in (DOMAIN e) \ {i} |-> e[k]])

\* entries that are 0 are not kept, so that equal arrays are equal values
Canonical(e) == [k \in {j \in DOMAIN e : e[j] # 0} |-> e[k]]

\* new Array(dimensions).fill(0)
ZeroArray == [k \in {} |-> 0]

\* mutation of FreshEmbedding: the array of the previous call is used again
FreshEmbeddingReused(d) ==
    IF ret.op = "generateFallbackEmbedding" /\ ret.res.val.dim = d
    THEN ret.res.val.raw
    ELSE ZeroArray

\* the array the words are accumulated into: a fresh zero array on every call
FreshEmbedding(d) == ZeroArray

\* generateFallbackEmbedding(text) of an instance of implementation im whose
\* fallback dimension is d
FallbackFrom(im, d, t, e) ==
    IF ~IsString(t)
    THEN \* text.toLowerCase() throws: catch returns new Array(d).fill(0)
         [dim |-> d, src |-> "fallback", raw |-> ZeroArray, mag2 |-> 0]
    ELSE LET raw == Canonical(AddWords(im, d, e, SplitWhitespace(ToLowerCase(t)), 1))
         IN  [dim |-> d, src |-> "fallback", raw |-> raw, mag2 |-> SumSquares(raw)]

(***************************************************************************)
(* Configuration: aiConfig (part_005) and the Pinecone client (part_004).  *)
(***************************************************************************)
\* availableModels.embed[...].dimensions
ModelDimensions ==
    [m \in {"embed-english-v3.0", "embed-multilingual-v3.0", "embed-english-light-v3.0"} |->
        IF m = "embed-english-light-v3.0" THEN 384 ELSE 1024]

\* AIConfig.getEmbeddingDimensions: this.dimensions of the Cohere service
getEmbeddingDimensions(model) ==
    IF model \in DOMAIN ModelDimensions THEN ModelDimensions[model]
    ELSE DefaultEmbedDimensions

\* the length of the fallback vectors of an instance
FallbackDimensions(im, model) ==
    IF im = "cohere" THEN getEmbeddingDimensions(model) ELSE GeminiFallbackDimensions

\* the length of the vectors the provider returns: the dimension of the Cohere
\* model asked for; 768 for Gemini's embedding-001 (the source does not state it)
ProviderDimensions(im, model) ==
    IF im = "cohere" THEN getEmbeddingDimensions(model) ELSE 768

\* PineconeClient.initialize: dimension of the index it creates
IndexDimension(env) == IF env # 0 THEN env ELSE DefaultIndexDimension

(***************************************************************************)
(* The embedding provider, a black box: what one call to it does.          *)
(* msg is the set of the phrases, among those the code looks for, that the *)
(* error message contains; status 0 is an error without a status.          *)
(***************************************************************************)
OkOutcome == [kind |-> "ok", status |-> 0, msg |-> {}]

EmptyOutcome == [kind |-> "empty", status |-> 0, msg |-> {}]

Err(status, msg) == [kind |-> "error", status |-> status, msg |-> msg]

ProviderErrors ==
    {Err(429, {}), Err(403, {}), Err(500, {}),
     Err(0, {"rate limit"}), Err(0, {"quota"}), Err(0, {})}

Outcomes == {OkOutcome, EmptyOutcome} \cup ProviderErrors

ProviderVector(d, t) == [dim |-> d, src |-> "provider", of |-> t]

Value(v) == [kind |-> "value", val |-> v]

Raised == [kind |-> "error", val |-> <<>>]

(***************************************************************************)
(* EmbeddingService.generateEmbedding.                                     *)
(***************************************************************************)
\* text.length > 2048 ? text.substring(0, 2048) : text   (Cohere only)
Truncate(im, t) ==
    IF im = "cohere" /\ Len(t) > MaxEmbedChars THEN Substring(t, 0, MaxEmbedChars) ELSE t

\* !text || typeof text !== 'string'
InvalidText(t) == ~IsString(t) \/ t = <<>>

\* the error the try block ends with, OkOutcome when it returns the embedding
Thrown(t, out) ==
    IF InvalidText(t) THEN Err(0, {})          \* new Error('Invalid text input for embedding')
    ELSE IF out.kind = "error" THEN out        \* the provider call rejects
    ELSE IF out.kind = "empty" THEN Err(0, {}) \* new Error('... Empty response')
    ELSE OkOutcome

\* embeddingService.js:39  error.status === 429 || error.message?.includes('rate limit')
\* part_002:35             error.message.includes('rate limit')
IsRateLimit(im, e) ==
    IF im = "cohere" THEN e.status = 429 \/ "rate limit" \in e.msg
    ELSE "rate limit" \in e.msg

\* embeddingService.js:46  error.status === 403 || error.message?.includes('quota')
\* part_002:35             error.message.includes('quota')
IsQuota(im, e) ==
    IF im = "cohere" THEN e.status = 403 \/ "quota" \in e.msg
    ELSE "quota" \in e.msg

generateFallbackEmbedding(im, model, t) ==
    FallbackFrom(im, FallbackDimensions(im, model), t, FreshEmbedding(FallbackDimensions(im, model)))

generateEmbedding(im, model, t, out) ==
    LET e == Thrown(t, out)
    IN  IF e.kind = "ok"
        THEN Value(ProviderVector(ProviderDimensions(im, model), Truncate(im, t)))
        ELSE IF IsRateLimit(im, e) \/ IsQuota(im, e)
             THEN Value(generateFallbackEmbedding(im, model, t))
             ELSE Raised

\* generateQueryEmbedding (Cohere only): return response.embeddings[0], and the
\* fallback on any error; an empty embeddings array gives undefined
generateQueryEmbedding(im, model, q, out) ==
    IF out.kind = "ok" THEN Value(ProviderVector(ProviderDimensions(im, model), q))
    ELSE IF out.kind = "empty" THEN [kind |-> "undefined", val |-> <<>>]
    ELSE Value(generateFallbackEmbedding(im, model, q))

(***************************************************************************)
(* EmbeddingService.cosineSimilarity.                                      *)
(***************************************************************************)
NullVector == [dim |-> 0, src |-> "null", raw |-> ZeroArray, mag2 |-> 0]

RECURSIVE DotOver(_, _, _)
DotOver(a, b, idx) ==
    IF idx = {} THEN 0
    ELSE LET i == CHOOSE k \in idx : TRUE
         IN  a[i] * b[i] + DotOver(a, b, idx \ {i})

\* the value is num / sqrt(den2), 0 when a norm is 0
cosineSimilarity(im, a, b) ==
    IF a = NullVector \/ b = NullVector \/ a.dim # b.dim
    THEN IF im = "cohere"
         THEN Value([num |-> 0, den2 |-> 1])   \* logger.error(...); return 0
         ELSE Raised                           \* throw new Error('Vectors must have ...')
    ELSE IF a.mag2 = 0 \/ b.mag2 = 0
         THEN Value([num |-> 0, den2 |-> 1])
         ELSE Value([num  |-> DotOver(a.raw, b.raw, (DOMAIN a.raw) \cap (DOMAIN b.raw)),
                     den2 |-> a.mag2 * b.mag2])

(***************************************************************************)
(* EmbeddingService.generateBatchEmbeddings.                               *)
(*                                                                         *)
(* Cohere (embeddingService.js:55-104): one provider call for the whole    *)
(* array; on status 429 one generateEmbedding call per text, in order; on  *)
(* any other error the fallback vector of every text.                      *)
(* Gemini (part_002:44-88): one generateEmbedding call per text, each with *)
(* its own .catch, collected in order by Promise.all (sub-batches of 5).   *)
(* Every await of a per-text call is a step of the model.                  *)
(***************************************************************************)
Idle == [phase |-> "idle", texts |-> <<>>, i |-> 0, acc |-> <<>>]

FallbackAll(im, model, texts) ==
    [k \in 1..Len(texts) |-> generateFallbackEmbedding(im, model, texts[k])]

\* mutation of AppendItem: a text whose embedding fails gets no entry
AppendItemSkipFailed(im, model, acc, r, t) ==
    IF r.kind = "value" THEN Append(acc, r.val) ELSE acc

\* try { embeddings.push(await this.generateEmbedding(text)) }
\* catch (err) { embeddings.push(this.generateFallbackEmbedding(text)) }
AppendItem(im, model, acc, r, t) ==
    IF r.kind = "value" THEN Append(acc, r.val)
    ELSE Append(acc, generateFallbackEmbedding(im, model, t))

\* the error the try block of the Cohere batch call ends with before any
\* per-text call, OkOutcome when it returns response.embeddings
BatchThrown(texts, out) ==
    IF Len(texts) = 0 THEN Err(0, {})           \* 'Invalid texts array for batch embedding'
    ELSE IF \E k \in 1..Len(texts) : ~IsString(texts[k])
         THEN Err(0, {})                        \* text.length of a non-string: TypeError
    ELSE IF out.kind = "error" THEN out
    ELSE IF out.kind = "empty" THEN Err(0, {})  \* 'Batch embedding response mismatch'
    ELSE OkOutcome

Returned(op, input, out, res) == [op |-> op, input |-> input, out |-> out, res |-> res]

\* no call has returned since the service was constructed or a call began
NoReturn == Returned("none", <<>>, OkOutcome, [kind |-> "none", val |-> <<>>])

BatchStart(texts, out) ==
    /\ call.phase = "idle"
    /\ IF impl = "cohere"
       THEN LET e == BatchThrown(texts, out)
            IN  IF e.kind = "ok"
                THEN /\ ret' = Returned("generateBatchEmbeddings", texts, out,
                            Value([k \in 1..Len(texts) |->
                                ProviderVector(ProviderDimensions(impl, embedModel),
                                               Truncate(impl, texts[k]))]))
                     /\ call' = call
                ELSE IF e.status = 429
                THEN /\ call' = [phase |-> "items", texts |-> texts, i |-> 0, acc |-> <<>>]
                     /\ ret' = NoReturn
                ELSE /\ ret' = Returned("generateBatchEmbeddings", texts, out,
                            Value(FallbackAll(impl, embedModel, texts)))
                     /\ call' = call
       ELSE /\ out = OkOutcome
            /\ IF Len(texts) = 0
               THEN /\ ret' = Returned("generateBatchEmbeddings", texts, out,
                            Value(FallbackAll(impl, embedModel, texts)))
                    /\ call' = call
               ELSE /\ call' = [phase |-> "items", texts |-> texts, i |-> 0, acc |-> <<>>]
                    /\ ret' = NoReturn
    /\ storeOps' = {}
    /\ UNCHANGED <<impl, embedModel, envDim>>
    /\ UNCHANGED <<chunkVars, logVars, ragVars, extVars>>

\* the generateEmbedding call of the next text settles
BatchItem(out) ==
    /\ call.phase = "items"
    /\ call.i < Len(call.texts)
    /\ LET t == call.texts[call.i + 1]
       IN  call' = [call EXCEPT
                      !.i = call.i + 1,
                      !.acc = AppendItem(impl, embedModel, call.acc,
                                         generateEmbedding(impl, embedModel, t, out), t)]
    /\ UNCHANGED <<impl, embedModel, envDim, ret, storeOps>>
    /\ UNCHANGED <<chunkVars, logVars, ragVars, extVars>>

\* return embeddings / return allEmbeddings
BatchReturn ==
    /\ call.phase = "items"
    /\ call.i = Len(call.texts)
    /\ ret' = Returned("generateBatchEmbeddings", call.texts, OkOutcome, Value(call.acc))
    /\ call' = Idle
    /\ UNCHANGED <<impl, embedModel, envDim, storeOps>>
    /\ UNCHANGED <<chunkVars, logVars, ragVars, extVars>>

(***************************************************************************)
(* The single calls, and VectorService handing the vector to the index.    *)
(***************************************************************************)
GenerateEmbeddingCall(t, out) ==
    /\ call.phase = "idle"
    /\ ret' = Returned("generateEmbedding", <<t>>, out, generateEmbedding(impl, embedModel, t, out))
    /\ storeOps' = {}
    /\ UNCHANGED <<impl, embedModel, envDim, call>>
    /\ UNCHANGED <<chunkVars, logVars, ragVars, extVars>>

GenerateQueryEmbeddingCall(q, out) ==
    /\ call.phase = "idle"
    /\ impl = "cohere"
    /\ IsString(q)
    /\ ret' = Returned("generateQueryEmbedding", <<q>>, out,
                       generateQueryEmbedding(impl, embedModel, q, out))
    /\ storeOps' = {}
    /\ UNCHANGED <<impl, embedModel, envDim, call>>
    /\ UNCHANGED <<chunkVars, logVars, ragVars, extVars>>

GenerateFallbackEmbeddingCall(t) ==
    /\ call.phase = "idle"
    /\ ret' = Returned("generateFallbackEmbedding", <<t>>, OkOutcome,
                       Value(generateFallbackEmbedding(impl, embedModel, t)))
    /\ storeOps' = {}
    /\ UNCHANGED <<impl, embedModel, envDim, call>>
    /\ UNCHANGED <<chunkVars, logVars, ragVars, extVars>>

\* vectorService.js:32-46 (storeEmbedding) and :78-88 (searchSimilar): the
\* vector generateEmbedding returns goes to index.upsert / index.query as is
ToIndex(op, t, out) ==
    /\ call.phase = "idle"
    /\ LET r == generateEmbedding(impl, embedModel, t, out)
       IN  /\ ret' = Returned(op, <<t>>, out, r)
           /\ storeOps' = IF r.kind = "value"
                          THEN {[op |-> op, dim |-> r.val.dim]}
                          ELSE {}
    /\ UNCHANGED <<impl, embedModel, envDim, call>>
    /\ UNCHANGED <<chunkVars, logVars, ragVars, extVars>>

StoreEmbeddingCall(t, out) == ToIndex("upsert", t, out)

SearchSimilarCall(t, out) == ToIndex("query", t, out)

CosineSimilarityCall(a, b) ==
    /\ call.phase = "idle"
    /\ ret' = Returned("cosineSimilarity", <<a, b>>, OkOutcome, cosineSimilarity(impl, a, b))
    /\ storeOps' = {}
    /\ UNCHANGED <<impl, embedModel, envDim, call>>
    /\ UNCHANGED <<chunkVars, logVars, ragVars, extVars>>

(***************************************************************************)
(* Inputs and configurations explored.                                     *)
(***************************************************************************)
EmbedTexts ==
    {<<>>, <<"a">>, <<"a", " ", "b">>, <<" ", "B">>,
     <<"a", "a", "a", "a", "a", "a", "a", "b">>, NotAString}

BatchTexts == {<<"a">>, <<"a", " ", "b">>, NotAString}

BatchInputs == UNION {[1..n -> BatchTexts] : n \in 0..MaxBatch}

\* texts given to storeEmbedding, searchSimilar and generateQueryEmbedding
IndexTexts == {<<>>, <<"a">>, <<"a", " ", "b">>}

CosineVectors ==
    {NullVector} \cup
    {FallbackFrom(impl, d, t, ZeroArray) :
        d \in {384, 1024}, t \in {<<"a">>, <<"a", " ", "b">>, NotAString}}

EmbedIdle ==
    /\ call = Idle
    /\ ret = NoReturn
    /\ storeOps = {}
    /\ fbLog = <<>>
    /\ fbInst = 0

InitEmbed ==
    /\ impl \in {"cohere", "gemini"}
    /\ embedModel \in IF impl = "cohere"
                      THEN {"embed-english-v3.0", "embed-english-light-v3.0"}
                      ELSE {"embedding-001"}
    /\ envDim \in {0, 1024}
    /\ EmbedIdle
    \* the chunker is not running
    /\ text = <<>> /\ chunkSize = 30 /\ overlap = 0 /\ start = 0
    /\ chunks = <<>> /\ spans = <<>> /\ iter = 0 /\ pc = "done"
    /\ embedded = <<>> /\ stored = <<>> /\ results = <<>>
    /\ RagIdle
    /\ ExtIdle

NextEmbed ==
    \/ \E t \in EmbedTexts, out \in Outcomes : GenerateEmbeddingCall(t, out)
    \/ \E t \in IndexTexts, out \in Outcomes : GenerateQueryEmbeddingCall(t, out)
    \/ \E t \in EmbedTexts : GenerateFallbackEmbeddingCall(t)
    \/ \E t \in IndexTexts, out \in Outcomes : StoreEmbeddingCall(t, out)
    \/ \E t \in IndexTexts, out \in Outcomes : SearchSimilarCall(t, out)
    \/ \E texts \in BatchInputs, out \in Outcomes : BatchStart(texts, out)
    \/ \E out \in Outcomes : BatchItem(out)
    \/ BatchReturn
    \/ \E a \in CosineVectors, b \in CosineVectors : CosineSimilarityCall(a, b)

SpecEmbed == InitEmbed /\ [][NextEmbed]_vars

(***************************************************************************)
(* Repeated fallback calls, on two instances built from the same aiConfig, *)
(* interleaved with generateEmbedding calls.                               *)
(***************************************************************************)
FallbackTexts == {<<>>, <<"a">>, <<"a", " ", "b">>, <<" ", "B">>}

FallbackOn(inst, t) ==
    /\ call.phase = "idle"
    /\ LET v == generateFallbackEmbedding(impl, embedModel, t)
       IN  /\ ret' = Returned("generateFallbackEmbedding", <<t>>, OkOutcome, Value(v))
           /\ fbLog' = IF t \in DOMAIN fbLog THEN fbLog
                       ELSE [x \in (DOMAIN fbLog) \cup {t} |->
                                IF x = t THEN [inst |-> inst, vec |-> v] ELSE fbLog[x]]
    /\ fbInst' = inst
    /\ storeOps' = {}
    /\ UNCHANGED <<impl, embedModel, envDim, call>>
    /\ UNCHANGED <<chunkVars, ragVars, extVars>>

EmbeddingBetween(t, out) ==
    /\ GenerateEmbeddingCall(t, out)

InitFallback ==
    /\ InitEmbed
    /\ envDim = 0

NextFallback ==
    \/ \E inst \in {1, 2}, t \in FallbackTexts : FallbackOn(inst, t)
    \/ \E t \in FallbackTexts, out \in {OkOutcome, Err(429, {}), Err(500, {})} :
           EmbeddingBetween(t, out)

SpecFallback == InitFallback /\ [][NextFallback]_vars

(***************************************************************************)
(* Properties of the embedding service.                                    *)
(***************************************************************************)
\* C6: generateBatchEmbeddings on a non-empty array returns, without raising,
\* a sequence as long as the input whose i-th element is the provider vector
\* or the fallback vector of the i-th text, whatever the provider does.
C6_BatchOneVectorPerText ==
    (ret.op = "generateBatchEmbeddings" /\ Len(ret.input) > 0) =>
        /\ ret.res.kind = "value"
        /\ Len(ret.res.val) = Len(ret.input)
        /\ \A k \in 1..Len(ret.input) :
               \/ /\ IsString(ret.input[k])
                  /\ ret.res.val[k] = ProviderVector(ProviderDimensions(impl, embedModel),
                                                     Truncate(impl, ret.input[k]))
               \/ ret.res.val[k] = generateFallbackEmbedding(impl, embedModel, ret.input[k])

\* a batch of two texts returned one provider vector and one fallback vector
C6_Witness ==
    /\ ret.op = "generateBatchEmbeddings"
    /\ Len(ret.input) = 2
    /\ ret.res.kind = "value"
    /\ Len(ret.res.val) = 2
    /\ ret.res.val[1].src = "provider"
    /\ ret.res.val[2].src = "fallback"

\* C7: in generateEmbedding a provider failure that is a rate limit (status
\* 429 or 'rate limit' in the message) or a quota failure (status 403 or
\* 'quota' in the message) returns the fallback vector; every other provider
\* failure raises.
C7_FailureClassification ==
    (ret.op = "generateEmbedding" /\ ret.out.kind = "error" /\ ~InvalidText(ret.input[1])) =>
        IF \/ ret.out.status = 429 \/ "rate limit" \in ret.out.msg
           \/ ret.out.status = 403 \/ "quota" \in ret.out.msg
        THEN ret.res = Value(generateFallbackEmbedding(impl, embedModel, ret.input[1]))
        ELSE ret.res.kind = "error"

ReturnedVectors ==
    IF ret.res.kind # "value" THEN {}
    ELSE IF ret.op \in {"generateEmbedding", "generateQueryEmbedding", "upsert", "query"}
         THEN {ret.res.val}
    ELSE IF ret.op = "generateBatchEmbeddings" THEN Range(ret.res.val)
    ELSE {}

C9_OneDimension ==
    /\ \A v \in ReturnedVectors : v.dim = FallbackDimensions(impl, embedModel)
    /\ \A o \in storeOps :
           /\ o.dim = FallbackDimensions(impl, embedModel)
           /\ o.dim = IndexDimension(envDim)

\* C10: invalid input raises: generateEmbedding on an empty or non-string
\* text, generateBatchEmbeddings on an empty array, cosineSimilarity on
\* vectors of different dimensions.
C10_InvalidInputRaises ==
    /\ (ret.op = "generateEmbedding" /\ InvalidText(ret.input[1])) => ret.res.kind = "error"
    /\ (ret.op = "generateBatchEmbeddings" /\ Len(ret.input) = 0) => ret.res.kind = "error"
    /\ (ret.op = "cosineSimilarity" /\ ret.input[1].dim # ret.input[2].dim) =>
           ret.res.kind = "error"

(***************************************************************************)
(* Retrieval: VectorService.searchSimilar, LLMService.rerankDocuments and  *)
(* the RAGService operations built on them.                                *)
(*                                                                         *)
(* Scores and thresholds are in hundredths (0.7 is 70).  A chunk content   *)
(* or a context is a sequence of runs <<c, n>> (n >= 1 copies of the       *)
(* character c, adjacent runs having different characters), so that a text *)
(* of thousands of characters keeps its exact length and prefixes.         *)
(***************************************************************************)
\* vectorService.js:9, ragService.js:9  parseFloat(process.env.SIMILARITY_THRESHOLD) || 0.7
DefaultSimilarityThreshold == 70
\* vectorService.js:10, ragService.js:8  parseInt(process.env.MAX_CONTEXT_CHUNKS) || 5
DefaultMaxContextChunks == 5
\* part_003:172  relevanceScore: 0.5
NeutralRelevance == 50
\* part_003:149  topN = 10
DefaultTopN == 10
\* vectorService.js:43  content: content.substring(0, 1000)
MaxStoredContent == 1000
\* ragService.js:302  result.content.substring(0, 100)
PrefixChars == 100

\* the longest ranking the store reports to a plain searchSimilar call
MaxMatches == 2

\* an option the caller did not supply (undefined)
Absent == -1

\* a + b on texts
Join(a, b) ==
    IF a = <<>> THEN b
    ELSE IF b = <<>> THEN a
    ELSE IF a[Len(a)][1] = b[1][1]
         THEN SubSeq(a, 1, Len(a) - 1)
                  \o << <<b[1][1], a[Len(a)][2] + b[1][2]>> >> \o Tail(b)
         ELSE a \o b

\* text.length
RECURSIVE TextLength(_)
TextLength(t) ==
    IF Len(t) = 0 THEN 0
    ELSE IF Len(t) = 1 THEN t[1][2]
    ELSE LET h == Len(t) \div 2
         IN  TextLength(SubSeq(t, 1, h)) + TextLength(SubSeq(t, h + 1, Len(t)))

\* text.substring(0, n)
RECURSIVE Prefix(_, _)
Prefix(t, n) ==
    IF n <= 0 \/ Len(t) = 0 THEN <<>>
    ELSE IF Len(t) = 1 THEN (IF t[1][2] <= n THEN t ELSE << <<t[1][1], n>> >>)
    ELSE LET h     == Len(t) \div 2
             left  == SubSeq(t, 1, h)
             right == SubSeq(t, h + 1, Len(t))
         IN  IF TextLength(left) >= n THEN Prefix(left, n)
             ELSE left \o Prefix(right, n - TextLength(left))

\* the text of a sequence of characters
RECURSIVE Runs(_)
Runs(s) ==
    IF Len(s) = 0 THEN <<>>
    ELSE IF Len(s) = 1 THEN << <<s[1], 1>> >>
    ELSE LET h == Len(s) \div 2
         IN  Join(Runs(SubSeq(s, 1, h)), Runs(SubSeq(s, h + 1, Len(s))))

(***************************************************************************)
(* The vector store (Pinecone namespace), a black box that answers a query *)
(* with id / score / metadata triples, best score first.                   *)
(***************************************************************************)
\* match.metadata of a match reported without metadata
EmptyMetadata == [content |-> <<>>, sourceType |-> "", sourceId |-> 0]

Vec(id, content, sourceType, sourceId) ==
    [id |-> id,
     metadata |-> [content |-> content, sourceType |-> sourceType, sourceId |-> sourceId]]

\* stored vectors (ids and source ids are numbers, 0 an absent source id):
\* the contents of vectors 1 and 2 agree on their first 100 characters
Catalogue ==
    <<Vec(1, << <<"a", PrefixChars>>, <<"x", 1>> >>, "pdf", 11),
      Vec(2, << <<"a", PrefixChars>>, <<"y", 1>> >>, "", 0),
      Vec(3, << <<"b", 1>> >>, "chat", 13)>>

\* below, at and above the default threshold
Scores == {50, 70, 90}

Hit(v, s) == [id |-> v.id, score |-> s, metadata |-> v.metadata]

Hits == {Hit(Catalogue[i], s) : i \in DOMAIN Catalogue, s \in Scores}

\* one id once, scores never increasing
Ranked(r) ==
    \A i, j \in DOMAIN r : i < j => (r[i].id # r[j].id /\ r[i].score >= r[j].score)

Rankings(n) == {r \in UNION {[1..k -> Hits] : k \in 0..n} : Ranked(r)}

\* index.namespace(ns).query({vector, topK, filter, includeMetadata})
StoreQuery(q, topK, filter, includeMetadata) ==
    LET passing == SelectSeq(store[q],
                             LAMBDA m : filter = "" \/ m.metadata.sourceType = filter)
        top     == SubSeq(passing, 1, Min(topK, Len(passing)))
    IN  [i \in 1..Len(top) |->
            IF includeMetadata THEN top[i] ELSE [top[i] EXCEPT !.metadata = EmptyMetadata]]

(***************************************************************************)
(* VectorService.                                                          *)
(***************************************************************************)
\* this.similarityThreshold (VectorService and RAGService read the same variable)
similarityThreshold ==
    IF processEnv.SIMILARITY_THRESHOLD = 0 THEN DefaultSimilarityThreshold
    ELSE processEnv.SIMILARITY_THRESHOLD

\* this.maxResults
maxResults ==
    IF processEnv.MAX_CONTEXT_CHUNKS = 0 THEN DefaultMaxContextChunks ELSE processEnv.MAX_CONTEXT_CHUNKS

\* a filter that also drops a match scoring exactly the threshold
KeepMatchStrict(m) == m.score > similarityThreshold

\* match => match.score >= this.similarityThreshold
KeepMatch(m) == m.score >= similarityThreshold

\* match => ({id, score, content: match.metadata?.content || '', metadata: match.metadata || {}})
Candidate(m) ==
    [id |-> m.id, score |-> m.score, content |-> m.metadata.content, metadata |-> m.metadata]

\* an update whose error reaches the caller
updateAccessCountRethrows(vectorIds, out) ==
    [raised |-> out # "ok", updated |-> IF out = "ok" THEN vectorIds ELSE <<>>]

\* VectorService.updateAccessCount: VectorStore.updateMany inside try / catch (log only)
updateAccessCount(vectorIds, out) ==
    [raised |-> FALSE, updated |-> IF out = "ok" THEN vectorIds ELSE <<>>]

\* VectorService.searchSimilar; ext tells what the embedding provider, the
\* index and the counter update do during this call
searchSimilar(query, options, ext) ==
    LET topK           == IF options.topK = Absent THEN maxResults ELSE options.topK
        queryEmbedding == generateEmbedding(impl, embedModel, query, ext.embed)
        found          == StoreQuery(query, topK, options.filter, options.includeMetadata)
        kept           == SelectSeq(found, KeepMatch)
        res            == [i \in 1..Len(kept) |-> Candidate(kept[i])]
        upd            == updateAccessCount([i \in 1..Len(res) |-> res[i].id], ext.update)
    IN  IF queryEmbedding.kind = "error" \/ ext.index = "error"
        THEN [ret |-> Raised, matches |-> <<>>, updated |-> <<>>]
        ELSE IF upd.raised
             THEN [ret |-> Raised, matches |-> found, updated |-> upd.updated]
             ELSE [ret |-> Value(res), matches |-> found, updated |-> upd.updated]

\* One request is followed per behaviour: a call reads processEnv, llm and
\* store only and changes none of them, so a later call starts from the same
\* service state.
Fresh == rcall.op = "none"

SearchSimilar(query, options, ext) ==
    LET finished(r) == /\ rret' = r.ret
                       /\ matches' = r.matches
                       /\ updated' = r.updated
    IN  /\ Fresh
        /\ rcall' = [op |-> "searchSimilar", query |-> query, options |-> options,
                     ext |-> ext]
        /\ finished(searchSimilar(query, options, ext))
        /\ searchResults' = <<>>
        /\ searchQueries' = <<>>
        /\ uniqueResults' = <<>>
        /\ context' = <<>>
        /\ UNCHANGED <<processEnv, llm, store>>
        /\ UNCHANGED <<chunkVars, embedVars, logVars, extVars>>

\* the original query of the calls explored
Query == <<"q">>

\* nothing fails; the embedding provider fails; the index fails; the counter update fails
Healthy == [embed |-> OkOutcome, index |-> "ok", update |-> "ok"]

Externals ==
    {Healthy, [Healthy EXCEPT !.embed = Err(500, {})], [Healthy EXCEPT !.index = "error"],
     [Healthy EXCEPT !.update = "error"]}

SearchOptions ==
    [topK : {Absent, 1}, filter : {"", "pdf"}, includeMetadata : BOOLEAN,
     threshold : {Absent, 50, 90}]

\* the chunker and the embedding service are not running
OthersIdle ==
    /\ text = <<>> /\ chunkSize = 30 /\ overlap = 0 /\ start = 0
    /\ chunks = <<>> /\ spans = <<>> /\ iter = 0 /\ pc = "done"
    /\ embedded = <<>> /\ stored = <<>> /\ results = <<>>
    /\ impl = "cohere" /\ embedModel = "embed-english-v3.0" /\ envDim = 0
    /\ EmbedIdle

NoCall ==
    /\ rcall = [op |-> "none"]
    /\ rret = [kind |-> "none", val |-> <<>>]
    /\ matches = <<>>
    /\ searchResults = <<>>
    /\ updated = <<>>
    /\ searchQueries = <<>>
    /\ uniqueResults = <<>>
    /\ context = <<>>

InitSearch ==
    /\ processEnv \in [SIMILARITY_THRESHOLD : {0, 50, 90}, MAX_CONTEXT_CHUNKS : {0, 1},
                USE_RERANKING : {FALSE}]
    /\ llm = "cohere"
    /\ store \in {[q \in {Query, <<>>} |-> r] : r \in Rankings(MaxMatches)}
    /\ NoCall
    /\ OthersIdle
    /\ ExtIdle

NextSearch ==
    \E query \in {Query, <<>>}, options \in SearchOptions, ext \in Externals :
        SearchSimilar(query, options, ext)

SpecSearch == InitSearch /\ [][NextSearch]_vars

(***************************************************************************)
(* Properties of VectorService.searchSimilar.                              *)
(***************************************************************************)
\* C11: searchSimilar returns exactly the store matches whose score is at least
\* the threshold, in the order the store reported them: no returned candidate
\* scores below the threshold, no match at or above it is dropped, and no
\* candidate is reordered.
C11_ExactlyMatchesAtThreshold ==
    (rcall.op = "searchSimilar" /\ rret.kind = "value") =>
        /\ \A i \in DOMAIN rret.val :
               /\ rret.val[i].score >= similarityThreshold
               /\ \E j \in DOMAIN matches :
                      matches[j].id = rret.val[i].id /\ matches[j].score = rret.val[i].score
        /\ \A j \in DOMAIN matches :
               matches[j].score >= similarityThreshold =>
                   \E i \in DOMAIN rret.val : rret.val[i].id = matches[j].id
        /\ \A i, k \in DOMAIN rret.val :
               i < k => \E a, b \in DOMAIN matches :
                            a < b /\ matches[a].id = rret.val[i].id
                                  /\ matches[b].id = rret.val[k].id

\* threshold 0.7, the store reports scores 0.9 and 0.5, one candidate is returned
C11_Witness ==
    /\ rcall.op = "searchSimilar" /\ rret.kind = "value"
    /\ similarityThreshold = DefaultSimilarityThreshold
    /\ Len(matches) = 2 /\ matches[1].score = 90 /\ matches[2].score = 50
    /\ Len(rret.val) = 1 /\ rret.val[1].score = 90

\* C12: the threshold a search filters with is the one supplied with the call:
\* a search given a threshold keeps exactly the matches at or above that
\* threshold, whatever the process-wide configuration is.
C12_ThresholdOfTheCall ==
    (rcall.op = "searchSimilar" /\ rret.kind = "value" /\ rcall.options.threshold # Absent) =>
        /\ \A i \in DOMAIN rret.val : rret.val[i].score >= rcall.options.threshold
        /\ \A j \in DOMAIN matches :
               matches[j].score >= rcall.options.threshold =>
                   \E i \in DOMAIN rret.val : rret.val[i].id = matches[j].id

\* C13: a failure of the access-counter update never fails the search: when
\* the update raises, searchSimilar ends as it ends when the update succeeds,
\* returning without error the same candidates.
C13_CounterFailureKeepsResult ==
    (/\ rcall.op = "searchSimilar"
     /\ rcall.ext = [Healthy EXCEPT !.update = "error"]) =>
        LET healthy == searchSimilar(rcall.query, rcall.options, Healthy).ret
        IN  /\ rret = healthy
            /\ rcall.query # <<>> => rret.kind = "value"

\* a search that found two candidates while the counter update failed
C13_Witness ==
    /\ rcall.op = "searchSimilar"
    /\ rcall.ext.update = "error"
    /\ rret.kind = "value"
    /\ Len(rret.val) = 2
    /\ updated = <<>>

(***************************************************************************)
(* LLMService.rerankDocuments (part_003).  The LLMService of               *)
(* services/llmService.js has no such method: calling it raises.           *)
(***************************************************************************)
\* the longest documents array handed to a direct rerankDocuments call
MaxDocuments == 3

\* what the rerank provider does: it fails, or it ranks the documents
RerankFails == [kind |-> "error", order |-> "same", scores |-> "high"]

RerankOutcomes ==
    {RerankFails} \cup
    [kind : {"ok"}, order : {"same", "reversed"}, scores : {"high", "graded"}]

\* response.results of cohere.rerank: the topN most relevant of n documents,
\* best first, each with the position of the document and its relevance
ProviderRanking(n, topN, out) ==
    [i \in 1..Min(topN, n) |->
        [index |-> IF out.order = "same" THEN i - 1 ELSE n - i,
         relevanceScore |-> IF out.scores = "high" THEN 90
                            ELSE IF 30 * (i - 1) > 90 THEN 0 ELSE 90 - 30 * (i - 1)]]

\* a fallback that numbers the documents from 1
NeutralRankingOneBased(documents) ==
    [i \in 1..Len(documents) |-> [index |-> i, relevanceScore |-> NeutralRelevance]]

\* documents.map((doc, index) => ({index: index, relevanceScore: 0.5}))
NeutralRanking(documents) ==
    [i \in 1..Len(documents) |-> [index |-> i - 1, relevanceScore |-> NeutralRelevance]]

\* llmService.rerankDocuments(query, documents, {topN})
rerankDocuments(documents, topN, out) ==
    IF llm = "gemini" THEN Raised
    ELSE IF Len(documents) = 0 THEN Value(<<>>)
    ELSE IF out.kind = "error" THEN Value(NeutralRanking(documents))
    ELSE Value(ProviderRanking(Len(documents), IF topN = Absent THEN DefaultTopN ELSE topN, out))

RerankDocuments(documents, topN, out) ==
    /\ Fresh
    /\ rcall' = [op |-> "rerankDocuments", documents |-> documents, topN |-> topN,
                 out |-> out]
    /\ rret' = rerankDocuments(documents, topN, out)
    /\ matches' = <<>>
    /\ searchResults' = <<>>
    /\ updated' = <<>>
    /\ searchQueries' = <<>>
    /\ uniqueResults' = <<>>
    /\ context' = <<>>
    /\ UNCHANGED <<processEnv, llm, store>>
    /\ UNCHANGED <<chunkVars, embedVars, logVars, extVars>>

DocumentTexts == {Catalogue[1].metadata.content, Catalogue[3].metadata.content}

DocumentArrays == UNION {[1..n -> DocumentTexts] : n \in 0..MaxDocuments}

InitRerank ==
    /\ processEnv = [SIMILARITY_THRESHOLD |-> 0, MAX_CONTEXT_CHUNKS |-> 0,
                     USE_RERANKING |-> TRUE]
    /\ llm \in {"cohere", "gemini"}
    /\ store = <<>>
    /\ NoCall
    /\ OthersIdle
    /\ ExtIdle

NextRerank ==
    \E documents \in DocumentArrays, topN \in {Absent, 1, 2, 5}, out \in RerankOutcomes :
        RerankDocuments(documents, topN, out)

SpecRerank == InitRerank /\ [][NextRerank]_vars

\* C14: when the rerank provider raises, rerankDocuments (part_003) raises no
\* error and returns exactly documents.length entries, the i-th with index i
\* (from 0) and relevanceScore 0.5, for every non-empty documents array and
\* every topN.
C14_NeutralRankingOnFailure ==
    (/\ rcall.op = "rerankDocuments"
     /\ llm = "cohere"
     /\ rcall.out.kind = "error"
     /\ Len(rcall.documents) > 0) =>
        /\ rret.kind = "value"
        /\ Len(rret.val) = Len(rcall.documents)
        /\ \A i \in DOMAIN rret.val :
               rret.val[i].index = i - 1 /\ rret.val[i].relevanceScore = 50

\* the provider failed on three documents while topN was 1
C14_Witness ==
    /\ rcall.op = "rerankDocuments"
    /\ llm = "cohere"
    /\ rcall.out.kind = "error"
    /\ Len(rcall.documents) = 3
    /\ rcall.topN = 1
    /\ rret.kind = "value"
    /\ Len(rret.val) = 3

(***************************************************************************)
(* RAGService.retrieveRelevantContext and RAGService.generateAnswer.       *)
(***************************************************************************)
\* part_003:236  async validateContextSize(context, maxTokens = 4000)
CohereMaxTokens == 4000
\* llmService.js:149  async validateContextSize(context, maxTokens = 30000)
GeminiMaxTokens == 30000
\* part_003:229, llmService.js:142  Math.ceil(text.length / 4)
CharsPerToken == 4
\* ragService.js:64  return context.substring(0, 8000)
TruncatedChars == 8000
\* ragService.js:35  useReranking && searchResults.length > 3
RerankAbove == 3
\* ragService.js:98  useReranking && searchResults.length > 2
AnswerRerankAbove == 2
\* ragService.js:93  topK: useReranking ? 20 : 10
AnswerTopK == 10
\* ragService.js:93  topK: useReranking ? 20 : 10
AnswerTopKReranking == 20

\* this.maxContextChunks
maxContextChunks ==
    IF processEnv.MAX_CONTEXT_CHUNKS = 0 THEN DefaultMaxContextChunks
    ELSE processEnv.MAX_CONTEXT_CHUNKS

\* this.useReranking = process.env.USE_RERANKING === 'true'
useReranking == processEnv.USE_RERANKING

\* const {useReranking = this.useReranking} = options
UseReranking(options) ==
    IF options.useReranking = "default" THEN useReranking ELSE options.useReranking = "true"

\* LLMService.estimateTokens / countTokens
estimateTokens(t) == (TextLength(t) + CharsPerToken - 1) \div CharsPerToken

\* the default maxTokens of validateContextSize
maxTokens == IF llm = "cohere" THEN CohereMaxTokens ELSE GeminiMaxTokens

\* LLMService.validateContextSize(context)
validateContextSize(t) == estimateTokens(t) <= maxTokens

\* the characters of a source type
Chars(str) ==
    CASE str = "pdf"  -> <<"p", "d", "f">>
      [] str = "chat" -> <<"c", "h", "a", "t">>
      [] OTHER        -> <<>>

DigitChars == <<"0", "1", "2", "3", "4", "5", "6", "7", "8", "9">>

RECURSIVE Digits(_)
Digits(n) ==
    IF n < 10 THEN <<DigitChars[n + 1]>>
    ELSE Digits(n \div 10) \o <<DigitChars[(n % 10) + 1]>>

\* (result.score * 100).toFixed(1), the score being a whole number of hundredths
Percent(score) == Digits(score) \o <<".", "0">>

\* blocks.join('\n')
RECURSIVE JoinBlocks(_)
JoinBlocks(blocks) ==
    IF Len(blocks) = 0 THEN <<>>
    ELSE IF Len(blocks) = 1 THEN blocks[1]
    ELSE LET h == Len(blocks) \div 2
         IN  Join(Join(JoinBlocks(SubSeq(blocks, 1, h)), Runs(<<"\n">>)),
                  JoinBlocks(SubSeq(blocks, h + 1, Len(blocks))))

\* `${sourceInfo}${scoreInfo}:\n${result.content}\n` of retrieveRelevantContext
ContextBlock(result) ==
    LET sourceInfo ==
            IF result.metadata.sourceType # ""
            THEN <<"[", "S", "o", "u", "r", "c", "e", ":", " ">>
                     \o Chars(result.metadata.sourceType)
            ELSE <<"[", "S", "o", "u", "r", "c", "e", ":", " ", "K", "n", "o", "w", "l",
                   "e", "d", "g", "e", " ", "B", "a", "s", "e">>
        scoreInfo ==
            IF result.score # 0
            THEN <<",", " ", "R", "e", "l", "e", "v", "a", "n", "c", "e", ":", " ">>
                     \o Percent(result.score) \o <<"%", "]">>
            ELSE <<"]">>
    IN  Join(Join(Runs(sourceInfo \o scoreInfo \o <<":", "\n">>), result.content),
             Runs(<<"\n">>))

\* `[Source ${index + 1}${relevance}]:\n${result.content}\n` of generateAnswer
AnswerBlock(result, index) ==
    LET relevance ==
            IF result.score # 0
            THEN <<" ", "(", "R", "e", "l", "e", "v", "a", "n", "c", "e", ":", " ">>
                     \o Percent(result.score) \o <<"%", ")">>
            ELSE <<>>
    IN  Join(Join(Runs(<<"[", "S", "o", "u", "r", "c", "e", " ">> \o Digits(index + 1)
                           \o relevance \o <<"]", ":", "\n">>),
                  result.content),
             Runs(<<"\n">>))

\* a truncation that returns the context as it is
TruncateContextKeepsAll(t) == t

\* context.substring(0, 8000)
TruncateContext(t) == Prefix(t, TruncatedChars)

\* reranked.filter(r => r.relevanceScore >= this.similarityThreshold)
\*         .map(r => searchResults[r.index])
Reranked(found, reranked) ==
    LET kept == SelectSeq(reranked, LAMBDA r : r.relevanceScore >= similarityThreshold)
    IN  [i \in 1..Len(kept) |-> found[kept[i].index + 1]]

\* searchResults.map(r => r.content)
Contents(found) == [i \in 1..Len(found) |-> found[i].content]

\* what a method of RAGService leaves behind when the search it makes raises
SearchRaised(s) ==
    [ret |-> Raised, matches |-> s.matches, updated |-> s.updated,
     searchResults |-> <<>>, context |-> <<>>]

\* RAGService.retrieveRelevantContext(query, options)
retrieveRelevantContext(query, options, ext) ==
    LET topK   == IF options.topK = Absent THEN maxContextChunks * 2 ELSE options.topK
        rerank == UseReranking(options)
        \* the steps after the rerank call, given what it returned
        format(s, reranked) ==
            LET final == IF rerank /\ Len(s.ret.val) > RerankAbove
                         THEN Reranked(s.ret.val, reranked.val) ELSE s.ret.val
                top   == SubSeq(final, 1, Min(maxContextChunks, Len(final)))
                done(v, c) == [ret |-> v, matches |-> s.matches, updated |-> s.updated,
                               searchResults |-> s.ret.val, context |-> c]
                deliver(built) ==
                    IF ~validateContextSize(built)
                    THEN done(Value(TruncateContext(built)), built)
                    ELSE done(Value(built), built)
            IN  IF Len(s.ret.val) = 0 THEN done(Value(<<>>), <<>>)
                ELSE IF rerank /\ Len(s.ret.val) > RerankAbove /\ reranked.kind = "error"
                     THEN done(Raised, <<>>)
                ELSE deliver(JoinBlocks([i \in 1..Len(top) |-> ContextBlock(top[i])]))
        \* the steps after the search, given what it returned
        found(s) ==
            IF s.ret.kind = "error" THEN SearchRaised(s)
            ELSE format(s, rerankDocuments(Contents(s.ret.val), topK, ext.rerank))
    IN  found(searchSimilar(query,
                  [topK |-> IF rerank THEN topK * 2 ELSE topK,
                   filter |-> options.filter, includeMetadata |-> TRUE,
                   threshold |-> Absent], ext))

\* contextReferences.push({sourceId, sourceType, chunkId, similarityScore})
ContextReference(result) ==
    [sourceId        |-> IF result.metadata.sourceId # 0 THEN result.metadata.sourceId
                         ELSE result.id,
     sourceType      |-> IF result.metadata.sourceType # "" THEN result.metadata.sourceType
                         ELSE "unknown",
     chunkId         |-> result.id,
     similarityScore |-> IF result.score # 0 THEN result.score ELSE 50]

\* response of llmService.generateResponse when the provider answers
GeneratedResponse == [content |-> <<"o", "k">>, tokens |-> 1]

\* a flag that is always set
hasContextAlways(contextReferences) == TRUE

\* hasContext: contextReferences.length > 0
hasContext(contextReferences) == Len(contextReferences) > 0

\* RAGService.generateAnswer(query, chatHistory, options)
generateAnswer(query, options, ext) ==
    LET rerank == UseReranking(options)
        answer(r) == IF ext.generate = "error" THEN Raised
                     ELSE Value([answer |-> GeneratedResponse.content,
                                 contextReferences |-> r,
                                 tokens |-> GeneratedResponse.tokens,
                                 hasContext |-> hasContext(r),
                                 usedReranking |-> rerank])
        \* the prompt and the references built from the chunks that are used
        respond(s, final) ==
            [ret |-> answer([i \in 1..Len(final) |-> ContextReference(final[i])]),
             matches |-> s.matches, updated |-> s.updated, searchResults |-> s.ret.val,
             context |-> JoinBlocks([i \in 1..Len(final) |-> AnswerBlock(final[i], i - 1)])]
        \* scoredResults.filter(r => r.score >= threshold).slice(0, maxContextChunks)
        head(above) == SubSeq(above, 1, Min(maxContextChunks, Len(above)))
        \* the steps after the rerank call, given what it returned
        select(s, reranked) ==
            IF rerank /\ Len(s.ret.val) > AnswerRerankAbove
            THEN IF reranked.kind = "error"
                 THEN [ret |-> Raised, matches |-> s.matches, updated |-> s.updated,
                       searchResults |-> s.ret.val, context |-> <<>>]
                 ELSE respond(s, Reranked(s.ret.val, reranked.val))
            ELSE respond(s, head(SelectSeq(s.ret.val,
                                           LAMBDA r : r.score >= similarityThreshold)))
        \* the steps after the search, given what it returned
        found(s) ==
            IF s.ret.kind = "error" THEN SearchRaised(s)
            ELSE select(s, rerankDocuments(Contents(s.ret.val), maxContextChunks,
                                           ext.rerank))
    IN  IF ~options.useRAG
        THEN [ret |-> answer(<<>>), matches |-> <<>>, updated |-> <<>>,
              searchResults |-> <<>>, context |-> <<>>]
        ELSE found(searchSimilar(query,
                       [topK |-> IF rerank THEN AnswerTopKReranking ELSE AnswerTopK,
                        filter |-> "", includeMetadata |-> TRUE, threshold |-> Absent],
                       ext))

\* the variables a finished RAGService call leaves behind
Finished(r) ==
    /\ rret' = r.ret
    /\ matches' = r.matches
    /\ searchResults' = r.searchResults
    /\ updated' = r.updated
    /\ context' = r.context

RetrieveRelevantContext(query, options, ext) ==
    /\ Fresh
    /\ rcall' = [op |-> "retrieveRelevantContext", query |-> query, options |-> options,
                 ext |-> ext, useReranking |-> UseReranking(options)]
    /\ Finished(retrieveRelevantContext(query, options, ext))
    /\ searchQueries' = <<>>
    /\ uniqueResults' = <<>>
    /\ UNCHANGED <<processEnv, llm, store>>
    /\ UNCHANGED <<chunkVars, embedVars, logVars, extVars>>

GenerateAnswer(query, options, ext) ==
    /\ Fresh
    /\ rcall' = [op |-> "generateAnswer", query |-> query, options |-> options,
                 ext |-> ext, useReranking |-> UseReranking(options)]
    /\ Finished(generateAnswer(query, options, ext))
    /\ searchQueries' = <<>>
    /\ uniqueResults' = <<>>
    /\ UNCHANGED <<processEnv, llm, store>>
    /\ UNCHANGED <<chunkVars, embedVars, logVars, extVars>>

\* n stored chunks of the longest content storeEmbedding writes
BulkVec(i) == Vec(100 + i, << <<"c", MaxStoredContent>> >>, "pdf", 11)

Bulk(n, score) == [i \in 1..n |-> Hit(BulkVec(i), score)]

\* nothing stored; three short chunks; 4, 20 and 130 long chunks
ContextRankings ==
    {<<>>,
     <<Hit(Catalogue[1], 90), Hit(Catalogue[2], 70), Hit(Catalogue[3], 50)>>,
     Bulk(4, 90), Bulk(20, 90), Bulk(130, 90)}

\* every provider works
AllHealthy(r) ==
    [embed |-> OkOutcome, index |-> "ok", update |-> "ok", rerank |-> r, generate |-> "ok"]

FirstRanking == [kind |-> "ok", order |-> "same", scores |-> "high"]

\* the rerank provider does any of the things it can do, or one other provider fails
ContextExternals ==
    {AllHealthy(r) : r \in RerankOutcomes} \cup
    {[AllHealthy(FirstRanking) EXCEPT !.embed = Err(500, {})],
     [AllHealthy(FirstRanking) EXCEPT !.index = "error"],
     [AllHealthy(FirstRanking) EXCEPT !.update = "error"],
     [AllHealthy(FirstRanking) EXCEPT !.generate = "error"]}

RetrieveOptions == [topK : {Absent, 2}, filter : {""}, useReranking : {"default"}]

AnswerOptions == [useRAG : BOOLEAN, useReranking : {"default"}]

InitContext ==
    /\ processEnv \in [SIMILARITY_THRESHOLD : {0, 50}, MAX_CONTEXT_CHUNKS : {0, 20, 130},
                       USE_RERANKING : BOOLEAN]
    /\ llm \in {"cohere", "gemini"}
    /\ store \in {[q \in {Query} |-> r] : r \in ContextRankings}
    /\ NoCall
    /\ OthersIdle
    /\ ExtIdle

NextContext ==
    \/ \E options \in RetrieveOptions, ext \in ContextExternals :
           RetrieveRelevantContext(Query, options, ext)
    \/ \E options \in AnswerOptions, ext \in ContextExternals :
           GenerateAnswer(Query, options, ext)

SpecContext == InitContext /\ [][NextContext]_vars

(***************************************************************************)
(* Properties of context retrieval.                                        *)
(***************************************************************************)
\* C15: with reranking enabled and the rerank provider failing,
\* retrieveRelevantContext and generateAnswer raise no error and still deliver
\* the candidates of the similarity search: a non-empty search result gives a
\* non-empty context.
C15_RerankFailureKeepsCandidates ==
    (/\ rcall.op \in {"retrieveRelevantContext", "generateAnswer"}
     /\ rcall.useReranking
     /\ rcall.ext = AllHealthy(RerankFails)
     /\ Len(searchResults) > 0) =>
        /\ rret.kind = "value"
        /\ context # <<>>

\* C20: the text retrieveRelevantContext returns never exceeds maxTokens * 4
\* characters: a context whose estimate ceil(length / 4) exceeds maxTokens is
\* truncated and returned, not rejected, and any other context is returned
\* unmodified.
C20_ContextWithinBudget ==
    (rcall.op = "retrieveRelevantContext") =>
        /\ rret.kind = "value" => TextLength(rret.val) <= maxTokens * 4
        /\ (TextLength(context) + 3) \div 4 > maxTokens =>
               /\ rret.kind = "value"
               /\ TextLength(rret.val) < TextLength(context)
               /\ rret.val = Prefix(context, TextLength(rret.val))
        /\ (rret.kind = "value" /\ (TextLength(context) + 3) \div 4 <= maxTokens) =>
               rret.val = context

\* a context of more than maxTokens * 4 characters was built and cut
C20_Witness ==
    /\ rcall.op = "retrieveRelevantContext"
    /\ rret.kind = "value"
    /\ TextLength(context) > maxTokens * 4
    /\ TextLength(rret.val) = 8000

\* the number of formatted blocks in a context: every block opens with "["
\* and no stored content holds that character
BlockCount(t) == Cardinality({i \in DOMAIN t : t[i][1] = "["})

\* the similarity search of the last call answered (it raised nothing)
SearchAnswered ==
    /\ rcall.ext.index = "ok"
    /\ generateEmbedding(impl, embedModel, rcall.query, rcall.ext.embed).kind # "error"

\* C21: the context generateAnswer assembles and hands to generateResponse
\* never exceeds the token budget of the LLM service (4000 tokens with
\* Cohere, 30000 with Gemini).
C21_AnswerContextWithinBudget ==
    (rcall.op = "generateAnswer") => estimateTokens(context) <= maxTokens

\* C22: when the similarity search yields no candidate, retrieveRelevantContext
\* returns the empty text and raises nothing; generateAnswer builds the empty
\* context and, when the generator answers, returns an empty contextReferences
\* list and hasContext false.
C22_NoCandidateEmptyContext ==
    (/\ rcall.op \in {"retrieveRelevantContext", "generateAnswer"}
     /\ rcall.op = "generateAnswer" => rcall.options.useRAG
     /\ SearchAnswered
     /\ searchResults = <<>>) =>
        /\ context = <<>>
        /\ rcall.op = "retrieveRelevantContext" => rret = Value(<<>>)
        /\ (rcall.op = "generateAnswer" /\ rcall.ext.generate = "ok") =>
               /\ rret.kind = "value"
               /\ rret.val.contextReferences = <<>>
               /\ rret.val.hasContext = FALSE

\* generateAnswer ran with retrieval, the search answered with no candidate
\* and the answer was returned
C22_Witness ==
    /\ rcall.op = "generateAnswer"
    /\ rcall.options.useRAG
    /\ SearchAnswered
    /\ searchResults = <<>>
    /\ rret.kind = "value"

\* C23: the context holds at most maxContextChunks blocks, in
\* retrieveRelevantContext and in generateAnswer, and generateAnswer returns
\* exactly one reference per block.
C23_AtMostMaxContextChunks ==
    /\ (rcall.op = "retrieveRelevantContext") => BlockCount(context) <= maxContextChunks
    /\ (rcall.op = "generateAnswer" /\ rret.kind = "value") =>
           /\ Len(rret.val.contextReferences) = BlockCount(context)
           /\ BlockCount(context) <= maxContextChunks

(***************************************************************************)
(* RAGService.generateSearchQueries (query expansion).  Queries and the    *)
(* generator's answer are sequences of characters.                         *)
(***************************************************************************)
\* ragService.js:271  .slice(0, 4)
MaxVariants == 4

\* the number of lines of the generator answers explored
MaxLines == 4

\* content.split('\n')
RECURSIVE SplitLines(_)
SplitLines(t) ==
    LET at == {i \in 1..Len(t) : t[i] = "\n"}
    IN  IF at = {} THEN <<t>>
        ELSE <<SubSeq(t, 1, SetMin(at) - 1)>> \o SplitLines(SubSeq(t, SetMin(at) + 1, Len(t)))

IsDigit(ch) == ch \in {"0", "1", "2", "3", "4", "5", "6", "7", "8", "9"}

\* q.replace(/^\d+\.\s*/, '')
StripNumbering(q) ==
    LET digits == SetMax({k \in 0..Len(q) : \A i \in 1..k : IsDigit(q[i])})
        blanks == SetMax({k \in 0..(Len(q) - digits - 1) :
                             \A i \in 1..k : IsWs(q[digits + 1 + i])})
    IN  IF digits >= 1 /\ Len(q) > digits /\ q[digits + 1] = "."
        THEN SubSeq(q, digits + 2 + blanks, Len(q))
        ELSE q

\* an expansion that keeps repeated variants
KeepRepeated(qs) == qs

\* [...new Set(queries)]: the first occurrence of every value, in order
RECURSIVE Distinct(_)
Distinct(qs) ==
    IF qs = <<>> THEN <<>>
    ELSE LET init == Distinct(SubSeq(qs, 1, Len(qs) - 1))
             last == qs[Len(qs)]
         IN  IF \E i \in DOMAIN init : init[i] = last THEN init ELSE Append(init, last)

\* RAGService.generateSearchQueries(query); gen is what llmService.generateResponse
\* does: it raises, or it answers with a text
generateSearchQueries(query, gen) ==
    IF gen.kind = "error" THEN <<query>>
    ELSE LET lines   == SplitLines(gen.content)
             cleaned == [i \in 1..Len(lines) |-> Trim(StripNumbering(lines[i]))]
             queries == <<query>> \o SelectSeq(cleaned, LAMBDA q : Len(q) > 0)
             unique  == Distinct(queries)
         IN  SubSeq(unique, 1, Min(MaxVariants, Len(unique)))

GenerateSearchQueries(query, gen) ==
    /\ Fresh
    /\ rcall' = [op |-> "generateSearchQueries", query |-> query, gen |-> gen]
    /\ rret' = Value(generateSearchQueries(query, gen))
    /\ matches' = <<>>
    /\ searchResults' = <<>>
    /\ updated' = <<>>
    /\ searchQueries' = <<>>
    /\ uniqueResults' = <<>>
    /\ context' = <<>>
    /\ UNCHANGED <<processEnv, llm, store>>
    /\ UNCHANGED <<chunkVars, embedVars, logVars, extVars>>

\* lines a generator answers with: an empty line, the query itself, and
\* numbered, padded and plain variants
AnswerLines ==
    {<<>>, <<"1", ".", " ", "q">>, <<"2", ".", " ", "a">>, <<" ", "b", " ">>, <<"c">>,
     <<"1", "0", ".", "d">>}

\* lines.join('\n')
RECURSIVE JoinLines(_)
JoinLines(ls) ==
    IF Len(ls) = 0 THEN <<>>
    ELSE IF Len(ls) = 1 THEN ls[1]
    ELSE ls[1] \o <<"\n">> \o JoinLines(Tail(ls))

Answered(t) == [kind |-> "ok", content |-> t]

GeneratorFails == [kind |-> "error", content |-> <<>>]

GeneratorOutcomes ==
    {GeneratorFails} \cup
    {Answered(JoinLines(ls)) : ls \in UNION {[1..n -> AnswerLines] : n \in 0..MaxLines}}

InitExpand ==
    /\ processEnv = [SIMILARITY_THRESHOLD |-> 0, MAX_CONTEXT_CHUNKS |-> 0,
                     USE_RERANKING |-> FALSE]
    /\ llm \in {"cohere", "gemini"}
    /\ store = <<>>
    /\ NoCall
    /\ OthersIdle
    /\ ExtIdle

NextExpand ==
    \E gen \in GeneratorOutcomes : GenerateSearchQueries(Query, gen)

SpecExpand == InitExpand /\ [][NextExpand]_vars

\* C16: generateSearchQueries returns between 1 and 4 pairwise distinct query
\* variants, the original query always among them and always first, whatever
\* text the generator returns and also when the generator fails.
C16_VariantsDistinctOriginalFirst ==
    (rcall.op = "generateSearchQueries") =>
        /\ rret.kind = "value"
        /\ Len(rret.val) >= 1
        /\ Len(rret.val) <= 4
        /\ rret.val[1] = rcall.query
        /\ \A i, j \in DOMAIN rret.val : i # j => rret.val[i] # rret.val[j]

\* the generator answered with the query itself and three more variants, and
\* four variants came back
C16_Witness ==
    /\ rcall.op = "generateSearchQueries"
    /\ rcall.gen.kind = "ok"
    /\ Len(SplitLines(rcall.gen.content)) = 4
    /\ \E i \in 1..4 : Trim(StripNumbering(SplitLines(rcall.gen.content)[i])) = rcall.query
    /\ Len(rret.val) = 4

(***************************************************************************)
(* RAGService.hybridSearch.                                                *)
(***************************************************************************)
\* ragService.js:290  topK: options.topK || 3
HybridTopK == 3

\* allResults.push(...results) over all searches
RECURSIVE Flatten(_)
Flatten(ss) == IF Len(ss) = 0 THEN <<>> ELSE ss[1] \o Flatten(Tail(ss))

\* a key that tells candidates apart by their id
ContentHashById(result) == result.id

\* const contentHash = result.content.substring(0, 100)
ContentHash(result) == Prefix(result.content, PrefixChars)

\* the deduplication loop: a result is kept when no earlier one has its key
RECURSIVE Deduplicate(_)
Deduplicate(all) ==
    IF all = <<>> THEN <<>>
    ELSE LET init == Deduplicate(SubSeq(all, 1, Len(all) - 1))
             last == all[Len(all)]
         IN  IF \E i \in DOMAIN init : ContentHash(init[i]) = ContentHash(last)
             THEN init ELSE Append(init, last)

\* a fallback that gives up
FallbackRaises(query, options, ext) ==
    [ret |-> Raised, matches |-> <<>>, updated |-> <<>>]

\* catch (error) { return vectorService.searchSimilar(query, options) }
Fallback(query, options, ext) ==
    searchSimilar(query,
                  [topK |-> options.topK, filter |-> options.filter,
                   includeMetadata |-> TRUE, threshold |-> Absent], ext)

\* RAGService.hybridSearch(query, options); ext.generate is what the query
\* generator does, ext.rerank what the rerank provider does
hybridSearch(query, options, ext) ==
    LET topK == IF options.topK = Absent \/ options.topK = 0 THEN HybridTopK
                ELSE options.topK
        topN == IF options.topK = Absent \/ options.topK = 0 THEN maxContextChunks
                ELSE options.topK
        \* the catch block, given the searches made before the error
        caught(sq, seen, counted, a, u, fallback) ==
            [ret |-> fallback.ret, matches |-> seen \o fallback.matches,
             updated |-> counted \o fallback.updated, searchQueries |-> sq,
             searchResults |-> a, uniqueResults |-> u]
        \* the rerank step, given the merged candidates
        rank(queries, seen, counted, all, unique, reranked) ==
            LET done(v) ==
                    [ret |-> Value(v), matches |-> seen, updated |-> counted,
                     searchQueries |-> queries, searchResults |-> all,
                     uniqueResults |-> unique]
            IN  IF Len(unique) > 1
                THEN IF reranked.kind = "error"
                     THEN caught(queries, seen, counted, all, unique,
                                 Fallback(query, options, ext))
                     ELSE done([i \in 1..Len(reranked.val) |->
                                   unique[reranked.val[i].index + 1]])
                ELSE done(SubSeq(unique, 1, Min(topN, Len(unique))))
        \* the deduplication step, given everything the searches returned
        dedupe(queries, seen, counted, all, unique) ==
            rank(queries, seen, counted, all, unique,
                 rerankDocuments(Contents(unique), topN, ext.rerank))
        \* the steps after Promise.all, given the outcome of each search
        merge(queries, runs) ==
            LET failed == {i \in 1..Len(queries) : runs[i].ret.kind = "error"}
                made   == IF failed = {} THEN Len(queries) ELSE SetMin(failed)
                all    == Flatten([i \in 1..Len(queries) |-> runs[i].ret.val])
                gather(seen, counted) ==
                    IF failed # {}
                    THEN caught(queries, seen, counted, <<>>, <<>>,
                                Fallback(query, options, ext))
                    ELSE dedupe(queries, seen, counted, all, Deduplicate(all))
            IN  gather(Flatten([i \in 1..made |-> runs[i].matches]),
                       Flatten([i \in 1..made |-> runs[i].updated]))
        \* the searches, given the queries
        search(queries) ==
            merge(queries,
                  [i \in 1..Len(queries) |->
                      searchSimilar(queries[i],
                          [topK |-> topK, filter |-> "", includeMetadata |-> TRUE,
                           threshold |-> Absent], ext)])
    IN  search(generateSearchQueries(query, ext.generate))

HybridSearch(query, options, ext) ==
    LET finished(r) == /\ rret' = r.ret
                       /\ matches' = r.matches
                       /\ searchResults' = r.searchResults
                       /\ updated' = r.updated
                       /\ searchQueries' = r.searchQueries
                       /\ uniqueResults' = r.uniqueResults
    IN  /\ Fresh
        /\ rcall' = [op |-> "hybridSearch", query |-> query, options |-> options,
                     ext |-> ext]
        /\ finished(hybridSearch(query, options, ext))
        /\ context' = <<>>
        /\ UNCHANGED <<processEnv, llm, store>>
        /\ UNCHANGED <<chunkVars, embedVars, logVars, extVars>>

\* the queries the store is asked: the original and the variants a generator gives
HybridQueries == {Query, <<"a">>, <<"b">>, <<"c">>}

\* vector 1 after its content was replaced
Changed == Vec(1, << <<"d", 1>> >>, "pdf", 11)

\* what the store reports to one query: nothing; two unrelated chunks; a chunk
\* sharing its first 100 characters with vector 1; vector 1 with another content;
\* two chunks sharing their first 100 characters
HybridRankings ==
    {<<>>,
     <<Hit(Catalogue[1], 90), Hit(Catalogue[3], 70)>>,
     <<Hit(Catalogue[2], 90)>>,
     <<Hit(Changed, 90), Hit(Catalogue[2], 70)>>,
     <<Hit(Catalogue[1], 90), Hit(Catalogue[2], 90)>>}

HybridStores ==
    {[q \in HybridQueries |-> IF q = Query THEN x ELSE IF q = <<"a">> THEN y ELSE z] :
        x \in HybridRankings, y \in HybridRankings,
        z \in {<<>>, <<Hit(Catalogue[2], 90)>>}}

\* the generator fails, answers nothing, two numbered variants, or four variants
HybridGenerators ==
    {GeneratorFails,
     Answered(<<>>),
     Answered(<<"1", ".", " ", "a", "\n", "2", ".", " ", "b">>),
     Answered(<<"a", "\n", "b", "\n", "c", "\n", "d">>)}

Providers(g, r) ==
    [embed |-> OkOutcome, index |-> "ok", update |-> "ok", rerank |-> r, generate |-> g]

\* the generator and the rerank provider do any of the things they can do, or
\* the embedding provider, the index or the counter update fails
HybridExternals ==
    {Providers(g, r) : g \in HybridGenerators,
                       r \in {RerankFails, FirstRanking,
                               [kind |-> "ok", order |-> "reversed", scores |-> "graded"]}} \cup
    {[Providers(GeneratorFails, FirstRanking) EXCEPT !.embed = Err(500, {})],
     [Providers(GeneratorFails, FirstRanking) EXCEPT !.index = "error"],
     [Providers(GeneratorFails, FirstRanking) EXCEPT !.update = "error"]}

HybridOptions == [topK : {Absent, 1}, filter : {"", "pdf"}]

InitHybrid ==
    /\ processEnv \in [SIMILARITY_THRESHOLD : {0, 90}, MAX_CONTEXT_CHUNKS : {0},
                       USE_RERANKING : {FALSE}]
    /\ llm \in {"cohere", "gemini"}
    /\ store \in HybridStores
    /\ NoCall
    /\ OthersIdle
    /\ ExtIdle

NextHybrid ==
    \E options \in HybridOptions, ext \in HybridExternals :
        HybridSearch(Query, options, ext)

SpecHybrid == InitHybrid /\ [][NextHybrid]_vars

(***************************************************************************)
(* Properties of hybridSearch.                                             *)
(***************************************************************************)
\* C17: in the merged set hybridSearch builds from the variant searches no two
\* candidates have the same first 100 characters of content; of the candidates
\* sharing a prefix the first encountered is kept (original query first), and
\* no prefix is lost, so candidates with equal ids and different prefixes are
\* both kept.
C17_MergedSetDistinctPrefixes ==
    (rcall.op = "hybridSearch") =>
        /\ \A i, j \in DOMAIN uniqueResults :
               i # j => Prefix(uniqueResults[i].content, 100)
                            # Prefix(uniqueResults[j].content, 100)
        /\ \A k \in DOMAIN searchResults :
               \E i \in DOMAIN uniqueResults :
                   Prefix(uniqueResults[i].content, 100)
                       = Prefix(searchResults[k].content, 100)
        /\ \A i \in DOMAIN uniqueResults :
               \E k \in DOMAIN searchResults :
                   /\ searchResults[k] = uniqueResults[i]
                   /\ \A h \in 1..(k - 1) :
                          Prefix(searchResults[h].content, 100)
                              # Prefix(uniqueResults[i].content, 100)
        /\ searchQueries # <<>> => searchQueries[1] = rcall.query

\* several variants were searched, a candidate repeating a prefix was dropped,
\* and two candidates with the same id and different contents were kept
C17_Witness ==
    /\ rcall.op = "hybridSearch"
    /\ Len(searchQueries) > 1
    /\ Len(uniqueResults) < Len(searchResults)
    /\ \E i, j \in DOMAIN uniqueResults :
           i # j /\ uniqueResults[i].id = uniqueResults[j].id

\* C18: when query expansion fails, hybridSearch(query, topK) returns exactly
\* what searchSimilar(query, topK) returns on the same store state: the same
\* candidates in the same order, nothing deduplicated or reranked.
C18_ExpansionFailureEqualsPlainSearch ==
    (/\ rcall.op = "hybridSearch"
     /\ rcall.ext.generate.kind = "error"
     /\ rcall.options.filter = "") =>
        rret = searchSimilar(rcall.query,
                             [topK |-> rcall.options.topK, filter |-> "",
                              includeMetadata |-> TRUE, threshold |-> Absent],
                             rcall.ext).ret

\* C19: hybridSearch surfaces no error when the embedder and the vector store
\* are healthy: whether the query generator fails or not and whether the
\* reranker fails or not, it returns a candidate sequence.
C19_HybridNeverRaises ==
    (/\ rcall.op = "hybridSearch"
     /\ rcall.ext.embed = OkOutcome
     /\ rcall.ext.index = "ok") =>
        rret.kind = "value"

\* the generator and the reranker both failed on several merged candidates
C19_Witness ==
    /\ rcall.op = "hybridSearch"
    /\ rcall.ext.generate.kind = "error"
    /\ rcall.ext.rerank.kind = "error"
    /\ Len(uniqueResults) > 1
    /\ rret.kind = "value"
    /\ Len(rret.val) > 1

(***************************************************************************)
(* Concurrent requests.  A request is a run of VectorService.searchSimilar *)
(* (ChatController.searchKnowledge) or of RAGService.generateAnswer        *)
(* (ChatController.sendMessage) with the Cohere services.  It runs to its  *)
(* next await in one step; between two steps the other requests run.  An   *)
(* external service answers an await, except the silent one, which never   *)
(* does.                                                                   *)
(***************************************************************************)
\* the external calls a request awaits
Services == {"embed", "list", "create", "query", "update", "rerank", "generate"}

Suspend(p, at) == rpc' = [rpc EXCEPT ![p] = at]

\* the request rejects: every catch on the way logs and rethrows
Reject(p, byProvider) ==
    /\ Suspend(p, "failed")
    /\ faulted' = [faulted EXCEPT ![p] = byProvider]

\* VectorService.getIndex -> initialize -> PineconeClient.getIndex ->
\* initialize, up to the next await: index.query when the handle is there,
\* client.listIndexes when PineconeClient is not initialized
getIndex(p) ==
    IF vsIndex
    THEN /\ Suspend(p, "query")
         /\ UNCHANGED <<vsIndex, initRuns>>
    ELSE IF initialized
         THEN /\ vsIndex' = TRUE
              /\ Suspend(p, "query")
              /\ UNCHANGED initRuns
         ELSE /\ initRuns' = initRuns + 1
              /\ Suspend(p, "list")
              /\ UNCHANGED vsIndex

\* a controller calls searchSimilar or generateAnswer: generateEmbedding
\* issues cohere.embed
Start(p, kind) ==
    /\ rpc[p] = "idle"
    /\ rkind' = [rkind EXCEPT ![p] = kind]
    /\ Suspend(p, "embed")
    /\ UNCHANGED <<vsIndex, initialized, indexExists, initRuns, createCalls, silent, faulted>>
    /\ UNCHANGED <<chunkVars, embedVars, logVars, ragVars, batchVars, chatVars>>

\* cohere.embed settles: a vector, a rate limit (fallback after 1 s), a quota
\* error (fallback at once) or another error (rethrown)
EmbedResponds(p, out) ==
    /\ rpc[p] = "embed"
    /\ silent # "embed"
    /\ CASE out = "rateLimit" ->
                /\ Suspend(p, "embedWait")
                /\ UNCHANGED <<vsIndex, initRuns, faulted>>
         [] out = "error" ->
                /\ Reject(p, TRUE)
                /\ UNCHANGED <<vsIndex, initRuns>>
         [] OTHER ->
                /\ getIndex(p)
                /\ UNCHANGED faulted
    /\ UNCHANGED <<rkind, initialized, indexExists, createCalls, silent>>
    /\ UNCHANGED <<chunkVars, embedVars, logVars, ragVars, batchVars, chatVars>>

\* the 1 s timer of the rate-limit branch fires
EmbedWaitDone(p) ==
    /\ rpc[p] = "embedWait"
    /\ getIndex(p)
    /\ UNCHANGED <<rkind, initialized, indexExists, createCalls, silent, faulted>>
    /\ UNCHANGED <<chunkVars, embedVars, logVars, ragVars, batchVars, chatVars>>

\* client.listIndexes settles (the listing names the index exactly when the
\* project holds it)
ListResponds(p, out) ==
    /\ rpc[p] = "list"
    /\ silent # "list"
    /\ IF out = "error"
       THEN /\ Reject(p, TRUE)
            /\ UNCHANGED <<vsIndex, initialized, createCalls>>
       ELSE IF indexExists
            THEN /\ initialized' = TRUE
                 /\ vsIndex' = TRUE
                 /\ Suspend(p, "query")
                 /\ UNCHANGED <<createCalls, faulted>>
            ELSE /\ createCalls' = createCalls + 1
                 /\ Suspend(p, "create")
                 /\ UNCHANGED <<vsIndex, initialized, faulted>>
    /\ UNCHANGED <<rkind, indexExists, initRuns, silent>>
    /\ UNCHANGED <<chunkVars, embedVars, logVars, ragVars, batchVars, chatVars>>

\* client.createIndex settles; a project that holds the index already
\* accepts or rejects the second creation
CreateResponds(p, out) ==
    /\ rpc[p] = "create"
    /\ silent # "create"
    /\ IF out = "error"
       THEN /\ Reject(p, ~indexExists)
            /\ UNCHANGED indexExists
       ELSE /\ indexExists' = TRUE
            /\ Suspend(p, "createWait")
            /\ UNCHANGED faulted
    /\ UNCHANGED <<rkind, vsIndex, initialized, initRuns, createCalls, silent>>
    /\ UNCHANGED <<chunkVars, embedVars, logVars, ragVars, batchVars, chatVars>>

\* the 60 s timer after createIndex fires: both initialize methods finish
CreateWaitDone(p) ==
    /\ rpc[p] = "createWait"
    /\ initialized' = TRUE
    /\ vsIndex' = TRUE
    /\ Suspend(p, "query")
    /\ UNCHANGED <<rkind, indexExists, initRuns, createCalls, silent, faulted>>
    /\ UNCHANGED <<chunkVars, embedVars, logVars, ragVars, batchVars, chatVars>>

\* index.query settles; searchSimilar filters the matches and awaits
\* this.updateAccessCount(...), which awaits VectorStore.updateMany
QueryResponds(p, out) ==
    /\ rpc[p] = "query"
    /\ silent # "query"
    /\ IF out = "error"
       THEN Reject(p, TRUE)
       ELSE Suspend(p, "update") /\ UNCHANGED faulted
    /\ UNCHANGED <<rkind, vsIndex, initialized, indexExists, initRuns, createCalls, silent>>
    /\ UNCHANGED <<chunkVars, embedVars, logVars, ragVars, batchVars, chatVars>>

\* VectorStore.updateMany settles (an error is logged only): searchSimilar
\* returns; generateAnswer goes on to rerankDocuments or to generateResponse
UpdateResponds(p, rerank) ==
    /\ rpc[p] = "update"
    /\ silent # "update"
    /\ IF rkind[p] = "searchSimilar" THEN Suspend(p, "done")
       ELSE IF rerank THEN Suspend(p, "rerank")
       ELSE Suspend(p, "generate")
    /\ UNCHANGED <<rkind, vsIndex, initialized, indexExists, initRuns, createCalls,
                   silent, faulted>>
    /\ UNCHANGED <<chunkVars, embedVars, logVars, ragVars, batchVars, chatVars>>

\* cohere.rerank settles (a failure gives the neutral ranking)
RerankResponds(p) ==
    /\ rpc[p] = "rerank"
    /\ silent # "rerank"
    /\ Suspend(p, "generate")
    /\ UNCHANGED <<rkind, vsIndex, initialized, indexExists, initRuns, createCalls,
                   silent, faulted>>
    /\ UNCHANGED <<chunkVars, embedVars, logVars, ragVars, batchVars, chatVars>>

\* cohere.chat settles
GenerateResponds(p, out) ==
    /\ rpc[p] = "generate"
    /\ silent # "generate"
    /\ IF out = "error"
       THEN Reject(p, TRUE)
       ELSE Suspend(p, "done") /\ UNCHANGED faulted
    /\ UNCHANGED <<rkind, vsIndex, initialized, indexExists, initRuns, createCalls, silent>>
    /\ UNCHANGED <<chunkVars, embedVars, logVars, ragVars, batchVars, chatVars>>

\* the next step of request p
Step(p) ==
    \/ \E kind \in {"searchSimilar", "generateAnswer"} : Start(p, kind)
    \/ \E out \in {"ok", "rateLimit", "quota", "error"} : EmbedResponds(p, out)
    \/ EmbedWaitDone(p)
    \/ \E out \in {"ok", "error"} : ListResponds(p, out)
    \/ \E out \in {"ok", "error"} : CreateResponds(p, out)
    \/ CreateWaitDone(p)
    \/ \E out \in {"ok", "error"} : QueryResponds(p, out)
    \/ \E rerank \in BOOLEAN : UpdateResponds(p, rerank)
    \/ RerankResponds(p)
    \/ \E out \in {"ok", "error"} : GenerateResponds(p, out)

InitRequests ==
    /\ rpc = [p \in Procs |-> "idle"]
    /\ rkind = [p \in Procs |-> "none"]
    /\ vsIndex = FALSE
    /\ initialized = FALSE
    /\ indexExists \in BOOLEAN
    /\ initRuns = 0
    /\ createCalls = 0
    /\ silent \in Services \cup {"none"}
    /\ faulted = [p \in Procs |-> FALSE]
    /\ BatchIdle
    /\ ChatIdle
    /\ NoCall
    /\ OthersIdle
    /\ processEnv = [SIMILARITY_THRESHOLD |-> 0, MAX_CONTEXT_CHUNKS |-> 0,
                     USE_RERANKING |-> FALSE]
    /\ llm = "cohere"
    /\ store = <<>>

NextRequests == \E p \in Procs : Step(p)

\* every request takes its next step when it can: the event loop runs every
\* continuation whose await has settled, and every service but the silent
\* one answers
SpecRequests ==
    InitRequests /\ [][NextRequests]_vars /\ \A p \in Procs : WF_vars(Step(p))

(***************************************************************************)
(* Properties of concurrent requests.                                      *)
(***************************************************************************)
Completed(p) == rpc[p] \in {"done", "failed"}

\* C25: a request that was started completes, with a result or an error,
\* also when the embedding provider, the vector store or the rerank provider
\* never answers.
C25_RequestEventuallyCompletes ==
    \A p \in Procs :
        (silent \in {"none", "embed", "list", "create", "query", "rerank"}
             /\ rpc[p] # "idle") ~> Completed(p)

\* C26: of two concurrent requests each ends as it would alone (it fails only
\* when a provider answered it with an error), PineconeClient.initialize runs
\* at most once and client.createIndex is called at most once.
C26_ConcurrentRequestsDoNotInterfere ==
    /\ initRuns <= 1
    /\ createCalls <= 1
    /\ \A p \in Procs : rpc[p] = "failed" => faulted[p]

\* C27: once searchSimilar has issued the counter update its result is
\* delivered, also when the update never completes.
C27_CounterNeverBlocksResult ==
    \A p \in Procs :
        (rpc[p] = "update") ~> (rpc[p] \in {"rerank", "generate", "done", "failed"})

(***************************************************************************)
(* The provider calls of EmbeddingService.generateBatchEmbeddings.  The    *)
(* run goes to its next await in one step; a provider call in flight is    *)
(* the set of text positions it carries.                                   *)
(***************************************************************************)
\* the largest texts array followed
MaxTexts == 7

\* const batchSize = 5 (part_002)
batchSize == 5

\* batch.map(text => this.generateEmbedding(text)...) for batch =
\* texts.slice(i, i + batchSize): one embedContent call per text
batchCalls(i, n) == {{j} : j \in (i + 1)..Min(i + batchSize, n)}

\* the texts of call c have their vector, from the provider or the fallback
Settle(c, kind) == allEmbeddings' = allEmbeddings @@ [j \in c |-> kind]

\* generateBatchEmbeddings(texts) with n texts, up to its first await: Cohere
\* issues one cohere.embed with all the texts, Gemini the calls of the first
\* sub-batch
BatchCall(n) ==
    /\ batchPhase = "idle"
    /\ nTexts' = n
    /\ batchStart' = 0
    /\ allEmbeddings' = <<>>
    /\ IF impl = "cohere"
       THEN /\ batchPromises' = {1..n}
            /\ batchPhase' = "embed"
       ELSE /\ batchPromises' = batchCalls(0, n)
            /\ batchPhase' = "all"
    /\ UNCHANGED <<chunkVars, embedVars, logVars, ragVars, reqVars, chatVars>>

\* Gemini: one embedContent call of the sub-batch settles (a failure gives the
\* fallback vector); when it was the last one Promise.all resolves and the
\* loop waits 1 s if texts remain
ItemSettles(c, out) ==
    /\ batchPhase = "all"
    /\ c \in batchPromises
    /\ batchPromises' = batchPromises \ {c}
    /\ Settle(c, IF out = "ok" THEN "provider" ELSE "fallback")
    /\ batchPhase' = IF batchPromises # {c} THEN "all"
                     ELSE IF batchStart + batchSize < nTexts THEN "delay"
                     ELSE "done"
    /\ UNCHANGED <<nTexts, batchStart>>
    /\ UNCHANGED <<chunkVars, embedVars, logVars, ragVars, reqVars, chatVars>>

\* Gemini: the 1 s timer fires and the next sub-batch is issued
DelayDone ==
    /\ batchPhase = "delay"
    /\ batchStart' = batchStart + batchSize
    /\ batchPromises' = batchCalls(batchStart + batchSize, nTexts)
    /\ batchPhase' = "all"
    /\ UNCHANGED <<nTexts, allEmbeddings>>
    /\ UNCHANGED <<chunkVars, embedVars, logVars, ragVars, reqVars, chatVars>>

\* Cohere: the cohere.embed call with all the texts settles: the vectors, a
\* 429 (the texts are then embedded one by one) or another error (fallback
\* vectors for all)
BatchResponds(out) ==
    /\ batchPhase = "embed"
    /\ CASE out = "rateLimit" ->
                /\ batchPromises' = {{1}}
                /\ batchPhase' = "item"
                /\ UNCHANGED allEmbeddings
         [] OTHER ->
                /\ batchPromises' = {}
                /\ batchPhase' = "done"
                /\ Settle(1..nTexts, IF out = "ok" THEN "provider" ELSE "fallback")
    /\ UNCHANGED <<nTexts, batchStart>>
    /\ UNCHANGED <<chunkVars, embedVars, logVars, ragVars, reqVars, chatVars>>

\* Cohere, after a 429: the next iteration of 'for (const text of texts)'
itemCall(i) ==
    IF i < nTexts
    THEN /\ batchPromises' = {{i + 1}}
         /\ batchPhase' = "item"
    ELSE /\ batchPromises' = {}
         /\ batchPhase' = "done"

\* Cohere, after a 429: the cohere.embed call of generateEmbedding(text)
\* settles; a returned vector (the provider's or the fallback of
\* generateEmbedding) is followed by the 200 ms delay, a thrown error by the
\* fallback vector and the next text at once
ItemResponds(out) ==
    /\ batchPhase = "item"
    /\ Settle({batchStart + 1}, IF out = "ok" THEN "provider" ELSE "fallback")
    /\ IF out = "error"
       THEN /\ batchStart' = batchStart + 1
            /\ itemCall(batchStart + 1)
       ELSE /\ batchPromises' = {}
            /\ batchPhase' = "itemDelay"
            /\ UNCHANGED batchStart
    /\ UNCHANGED nTexts
    /\ UNCHANGED <<chunkVars, embedVars, logVars, ragVars, reqVars, chatVars>>

\* Cohere, after a 429: the 200 ms timer fires
ItemDelayDone ==
    /\ batchPhase = "itemDelay"
    /\ batchStart' = batchStart + 1
    /\ itemCall(batchStart + 1)
    /\ UNCHANGED <<nTexts, allEmbeddings>>
    /\ UNCHANGED <<chunkVars, embedVars, logVars, ragVars, reqVars, chatVars>>

InitBatch ==
    /\ impl \in {"cohere", "gemini"}
    /\ embedModel = IF impl = "cohere" THEN "embed-english-v3.0" ELSE "embedding-001"
    /\ envDim = 0
    /\ EmbedIdle
    /\ text = <<>> /\ chunkSize = 30 /\ overlap = 0 /\ start = 0
    /\ chunks = <<>> /\ spans = <<>> /\ iter = 0 /\ pc = "done"
    /\ embedded = <<>> /\ stored = <<>> /\ results = <<>>
    /\ RagIdle
    /\ ReqIdle
    /\ BatchIdle
    /\ ChatIdle

NextBatch ==
    \/ \E n \in 1..MaxTexts : BatchCall(n)
    \/ \E j \in 1..MaxTexts, out \in {"ok", "error"} : ItemSettles({j}, out)
    \/ DelayDone
    \/ \E out \in {"ok", "rateLimit", "error"} : BatchResponds(out)
    \/ \E out \in {"ok", "rateLimit", "quota", "error"} : ItemResponds(out)
    \/ ItemDelayDone

SpecBatch == InitBatch /\ [][NextBatch]_vars

\* the sub-batch of the text at position j (0 for the first)
SubBatchOf(j) == (j - 1) \div batchSize

\* C28: at every moment of a generateBatchEmbeddings run at most 5 provider
\* calls are in flight, no call carries more than 5 texts, and a text is sent
\* only when every text of the earlier sub-batches has its vector.
C28_SubBatchesOfAtMostFive ==
    /\ Cardinality(batchPromises) <= batchSize
    /\ \A c \in batchPromises :
          /\ Cardinality(c) <= batchSize
          /\ \A j \in c, k \in 1..nTexts :
                SubBatchOf(k) < SubBatchOf(j) => k \in DOMAIN allEmbeddings

\* the same for the Gemini service only
GeminiSubBatches == impl = "gemini" => C28_SubBatchesOfAtMostFive

(***************************************************************************)
(* One chat session under ChatController.sendMessage,                      *)
(* HistoryController.deleteMessage and HistoryController.clearChatHistory. *)
(* Every database operation is atomic; a controller run goes to its next   *)
(* await in one step, and between two steps the other runs go on.          *)
(***************************************************************************)
\* the number of controller runs followed in all
MaxOperations == 3

\* body("sourceType").optional().isIn([...]) of the upload route
UploadSourceTypes == {"document", "web", "manual", "knowledge-base"}

\* enum of contextReferences.sourceType in chatHistorySchema
ChatHistorySourceTypes == {"document", "web", "database", "knowledge-base"}

\* finalResults of generateAnswer: none, or one candidate whose metadata holds
\* a source type accepted at upload or none ("")
FinalResults ==
    {<<>>} \cup
    {<<Candidate(Hit(Vec(1, << <<"a", 1>> >>, t, 11), 90))>> :
        t \in UploadSourceTypes \cup {""}}

\* mongoose validation of the contextReferences array when the message is saved
Validates(contextReferences) ==
    \A i \in DOMAIN contextReferences :
        contextReferences[i].sourceType \in ChatHistorySourceTypes

Awaits(p, pcs) == chat[p].pc \in pcs

Goto(p, to) == chat' = [chat EXCEPT ![p].pc = to]

\* a request arrives at a controller; sendMessage and clearChatHistory issue
\* ChatSession.findOne, deleteMessage issues ChatHistory.findOneAndDelete
Request(p, op) ==
    /\ Awaits(p, {"idle", "done", "failed"})
    /\ operations < MaxOperations
    /\ operations' = operations + 1
    /\ chat' = [chat EXCEPT ![p] =
                   [NoRun EXCEPT !.op = op,
                                 !.pc = IF op = "deleteMessage" THEN "findOneAndDelete"
                                        ELSE "findOne"]]
    /\ UNCHANGED <<messageCount, messages>>
    /\ UNCHANGED <<chunkVars, embedVars, logVars, ragVars, reqVars, batchVars>>

\* ChatSession.findOne answers: the run holds its own copy of the session
FindSession(p) ==
    /\ Awaits(p, {"findOne"})
    /\ chat' = [chat EXCEPT ![p].session = messageCount,
                            ![p].pc = IF chat[p].op = "sendMessage" THEN "saveUser"
                                      ELSE "deleteMany"]
    /\ UNCHANGED <<messageCount, messages, operations>>
    /\ UNCHANGED <<chunkVars, embedVars, logVars, ragVars, reqVars, batchVars>>

\* userMessage.save(): the document is inserted, the post('save') hook follows
SaveUserMessage(p) ==
    /\ Awaits(p, {"saveUser"})
    /\ messages' = messages + 1
    /\ Goto(p, "hookUser")
    /\ UNCHANGED <<messageCount, operations>>
    /\ UNCHANGED <<chunkVars, embedVars, logVars, ragVars, reqVars, batchVars>>

\* chatHistorySchema.post('save'): findByIdAndUpdate $inc messageCount by 1;
\* save() resolves, and sendMessage goes on to ChatHistory.find and
\* generateAnswer, or to session.save()
PostSave(p) ==
    /\ Awaits(p, {"hookUser", "hookAssistant"})
    /\ messageCount' = messageCount + 1
    /\ Goto(p, IF chat[p].pc = "hookUser" THEN "generateAnswer" ELSE "saveSession")
    /\ UNCHANGED <<messages, operations>>
    /\ UNCHANGED <<chunkVars, embedVars, logVars, ragVars, reqVars, batchVars>>

\* ragService.generateAnswer settles: an error (caught by sendMessage), or a
\* response with one reference per final result
GenerateAnswerSettles(p, out, finalResults) ==
    /\ Awaits(p, {"generateAnswer"})
    /\ IF out = "error"
       THEN Goto(p, "failed")
       ELSE chat' = [chat EXCEPT
                        ![p].contextReferences =
                            [i \in DOMAIN finalResults |-> ContextReference(finalResults[i])],
                        ![p].pc = "saveAssistant"]
    /\ UNCHANGED <<messageCount, messages, operations>>
    /\ UNCHANGED <<chunkVars, embedVars, logVars, ragVars, reqVars, batchVars>>

\* assistantMessage.save(): validation, then the insert and the hook; a
\* validation error is caught by sendMessage
SaveAssistantMessage(p) ==
    /\ Awaits(p, {"saveAssistant"})
    /\ IF Validates(chat[p].contextReferences)
       THEN /\ messages' = messages + 1
            /\ Goto(p, "hookAssistant")
       ELSE /\ chat' = [chat EXCEPT ![p].pc = "failed", ![p].invalid = TRUE]
            /\ UNCHANGED messages
    /\ UNCHANGED <<messageCount, operations>>
    /\ UNCHANGED <<chunkVars, embedVars, logVars, ragVars, reqVars, batchVars>>

\* session.messageCount += 2; await session.save(): the count of the run's
\* own copy is written
SaveSession(p) ==
    /\ Awaits(p, {"saveSession"})
    /\ messageCount' = chat[p].session + 2
    /\ Goto(p, "done")
    /\ UNCHANGED <<messages, operations>>
    /\ UNCHANGED <<chunkVars, embedVars, logVars, ragVars, reqVars, batchVars>>

\* clearChatHistory: ChatHistory.deleteMany({session, user})
DeleteMany(p) ==
    /\ Awaits(p, {"deleteMany"})
    /\ messages' = 0
    /\ Goto(p, "resetSession")
    /\ UNCHANGED <<messageCount, operations>>
    /\ UNCHANGED <<chunkVars, embedVars, logVars, ragVars, reqVars, batchVars>>

\* clearChatHistory: session.messageCount = 0; await session.save() (mongoose
\* writes a path only when the assignment changed the loaded value)
ResetSession(p) ==
    /\ Awaits(p, {"resetSession"})
    /\ messageCount' = IF chat[p].session # 0 THEN 0 ELSE messageCount
    /\ Goto(p, "done")
    /\ UNCHANGED <<messages, operations>>
    /\ UNCHANGED <<chunkVars, embedVars, logVars, ragVars, reqVars, batchVars>>

\* deleteMessage: ChatHistory.findOneAndDelete; 'Message not found' when the
\* message is gone
FindOneAndDelete(p) ==
    /\ Awaits(p, {"findOneAndDelete"})
    /\ IF messages > 0
       THEN /\ messages' = messages - 1
            /\ Goto(p, "decrement")
       ELSE /\ Goto(p, "done")
            /\ UNCHANGED messages
    /\ UNCHANGED <<messageCount, operations>>
    /\ UNCHANGED <<chunkVars, embedVars, logVars, ragVars, reqVars, batchVars>>

\* deleteMessage: findByIdAndUpdate $inc messageCount by -1
Decrement(p) ==
    /\ Awaits(p, {"decrement"})
    /\ messageCount' = messageCount - 1
    /\ Goto(p, "done")
    /\ UNCHANGED <<messages, operations>>
    /\ UNCHANGED <<chunkVars, embedVars, logVars, ragVars, reqVars, batchVars>>

InitChat ==
    /\ ChatIdle
    /\ BatchIdle
    /\ ReqIdle
    /\ RagIdle
    /\ OthersIdle

NextChat ==
    \E p \in ChatRuns :
        \/ \E op \in {"sendMessage", "deleteMessage", "clearChatHistory"} : Request(p, op)
        \/ FindSession(p)
        \/ SaveUserMessage(p)
        \/ PostSave(p)
        \/ \E out \in {"ok", "error"}, finalResults \in FinalResults :
              GenerateAnswerSettles(p, out, finalResults)
        \/ SaveAssistantMessage(p)
        \/ SaveSession(p)
        \/ DeleteMany(p)
        \/ ResetSession(p)
        \/ FindOneAndDelete(p)
        \/ Decrement(p)

SpecChat == InitChat /\ [][NextChat]_vars

\* no controller run is under way
Quiet == \A p \in ChatRuns : Awaits(p, {"idle", "done", "failed"})

\* C29: whenever no controller run is under way on the session, its
\* messageCount is the number of user and assistant messages stored for it.
C29_MessageCountMatchesMessages == Quiet => messageCount = messages

\* the same while no two runs overlap
OneAtATime ==
    (Quiet /\ \A p \in ChatRuns : chat[p].op # "none" => p = 1)
        => messageCount = messages

\* C30: every reference of a generateAnswer response has a source type of the
\* ChatHistory schema, and saving the assistant message never fails on its
\* references.
C30_ReferencesAcceptedByLog ==
    \A p \in ChatRuns :
        /\ Validates(chat[p].contextReferences)
        /\ ~chat[p].invalid

=============================================================================
